---- MODULE Spec2Model ----
(***************************************************************************)
(* GEO-Agent: the Gemini agent manager (GeminiAgentManager.ts), its        *)
(* bootstrap chain and message pipeline, the tool-confirmation protocol    *)
(* driven from MessageToolGroup.tsx, and the per-conversation tool         *)
(* configuration (conversation-tool-config.ts).                            *)
(*                                                                         *)
(* The manager's collaborators (message store, BaseAgentManager,           *)
(* transformMessage, the agent subprocess) are modelled from the           *)
(* specification text; each such definition says so in its comment.        *)
(***************************************************************************)
EXTENDS Naturals, Sequences, FiniteSets, Bags, TLC

\* ---------------------------------------------------------------- bounds
MaxCalls == 2        \* sendMessage calls per manager
MaxEvents == 2       \* streamed (non start/finish) subprocess events
MaxPosted == 2       \* confirmation messages in flight to the subprocess
MaxCached == 2       \* entries of the capability cache
MaxRegisters == 3    \* registerCustomTools calls per conversation

CallSlots == 1..MaxCalls
MsgIdSeq == <<"m1", "m2">>
InputSeq == <<"p", "q">>
MsgIds == {MsgIdSeq[i] : i \in 1..Len(MsgIdSeq)}
Inputs == {InputSeq[i] : i \in 1..Len(InputSeq)}
ToolCallIds == {"t1", "t2"}
ConversationId == "conv"
RawConversationIds == {"other", "none"}
StreamData == {"x", "y"}
Null == [null |-> TRUE]

VARIABLES
  bootstrap,     \* state of the bootstrap promise chain
  status,        \* BaseAgentManager.status
  history,       \* persisted messages of the conversation, in stored order
  pending,       \* writes accepted by the store and not yet on disk
  outbound,      \* bag of events emitted on ipcBridge...responseStream
  calls,         \* per sendMessage call: position in the async function, arguments
  proc,          \* subprocess side of each forwarded call
  nEvents,       \* streamed events so far
  toolCalls,     \* ToolCallRecord per callId
  continuations, \* callIds with a pending confirmation continuation
  posted,        \* postMessagePromise messages in flight to the subprocess
  besideResolve, \* a continuation was resolved while another one was pending
  mcpConfig,     \* ProcessConfig 'mcp.config'
  geminiConfig,  \* ProcessConfig 'gemini.config'
  oauthInfo,     \* outcome of getOauthInfoWithCache
  detectedAgents,\* external agent integrations detected at present
  agentMcp,      \* per external agent: names of the MCP servers installed in it
  mcpOps,        \* syncMcpToAgents / removeMcpFromAgents calls in flight
  provider,      \* the IProvider whose capabilities are looked up
  modelCapabilitiesCache, \* the module's cache: cache key -> cached result
  capResult,     \* the last hasModelCapability call: its type and what it returned
  startOptions,  \* the options start was called with (Null before the call)
  session,       \* message ids injected into the live session, as a bag
  toolConfig,    \* the conversation's ConversationToolConfig object
  authType,      \* the AuthType initializeForConversation was called with
  toolRegistry,  \* names of the tools registered in the Config's tool registry
  clientTools,   \* tools last synchronized to the model client by setTools
  registerCalls, \* calls of registerCustomTools so far and the last one's outcome
  preference     \* the global search-engine preference

vars == <<bootstrap, status, history, pending, outbound, calls, proc, nEvents,
          toolCalls, continuations, posted, besideResolve,
          mcpConfig, geminiConfig, oauthInfo, detectedAgents, agentMcp, mcpOps,
          provider, modelCapabilitiesCache, capResult,
          startOptions, session,
          toolConfig, authType, toolRegistry, clientTools, registerCalls, preference>>

msgVars == <<status, history, pending, outbound>>
toolVars == <<toolCalls, continuations, posted, besideResolve>>
bootVars == <<bootstrap, startOptions, session>>
capVars == <<provider, modelCapabilitiesCache, capResult>>
envVars == <<mcpConfig, geminiConfig, oauthInfo, detectedAgents, agentMcp, mcpOps, capVars>>
ctcVars == <<toolConfig, authType, toolRegistry, clientTools, registerCalls, preference>>

\* ------------------------------------------------------- message store
\* The store ('../message') is modelled from the
\* specification (upsert keyed by message id, new ids appended in order,
\* writes settle asynchronously, nextTickToLocalFinish runs once settled).

HasId(h, id) == \E i \in 1..Len(h) : h[i].id = id

IndexOf(h, id) == CHOOSE i \in 1..Len(h) : h[i].id = id

CountId(h, id) == Cardinality({i \in 1..Len(h) : h[i].id = id})

Upsert(h, m) ==
  IF HasId(h, m.id)
  THEN [i \in 1..Len(h) |-> IF h[i].id = m.id THEN m ELSE h[i]]
  ELSE Append(h, m)

RECURSIVE FlushAll(_, _)
FlushAll(h, q) == IF q = <<>> THEN h ELSE FlushAll(Upsert(h, Head(q)), Tail(q))

\* addMessage: an insert is written through together with everything buffered
addMessage(h, q, m) == FlushAll(h, Append(q, m))

\* a buffer that hands the newest write to the disk first
addOrUpdateMessage_Prepend(q, m) == <<m>> \o q

\* addOrUpdateMessage: the write is buffered and settles later
addOrUpdateMessage(q, m) == Append(q, m)

\* ----------------------------------------------------- message pipeline
\* transformMessage ('@/common/chatLib') is defined outside this file set: an event
\* without representable content maps to Null, any other to a Message whose
\* id is fixed by the event's type and msg_id (streamed updates of one
\* logical message share it).
transformMessage(data) ==
  IF data.type \in {"start", "finish"} \/ data.data = ""
  THEN Null
  ELSE [id |-> data.type \o "-" \o data.msg_id,
        msg_id |-> data.msg_id,
        type |-> IF data.type = "error" THEN "tips" ELSE data.type,
        position |-> IF data.type = "error" THEN "center" ELSE "left",
        conversation_id |-> data.conversation_id,
        content |-> data.data]

\* handlePreviewOpenEvent ('../utils/previewUtils'), modelled as a flag of the event
handlePreviewOpenEvent(data) == data.preview

\* a skip list without the thought type
skipTransformTypes_FinishedOnly == {"finished"}

skipTransformTypes == {"thought", "finished"}

\* a listener that enforces pending -> running -> finished
onGeminiMessage_Guarded(data) ==
  /\ status' = IF data.type = "start" /\ status = "pending" THEN "running"
               ELSE IF data.type = "finish" /\ status = "running" THEN "finished"
               ELSE status
  /\ history' = history
  /\ IF handlePreviewOpenEvent(data)
     THEN UNCHANGED <<pending, outbound>>
     ELSE LET stamped == [data EXCEPT !.conversation_id = ConversationId]
              tMessage == transformMessage(stamped)
          IN /\ pending' = IF stamped.type \notin skipTransformTypes /\ tMessage # Null
                           THEN addOrUpdateMessage(pending, tMessage)
                           ELSE pending
             /\ outbound' = outbound (+) SetToBag({[type |-> stamped.type,
                                                   msg_id |-> stamped.msg_id,
                                                   conversation_id |-> stamped.conversation_id]})

\* a listener that passes the event's own conversation_id on
onGeminiMessage_Unstamped(data) ==
  /\ status' = IF data.type = "start" THEN "running"
               ELSE IF data.type = "finish" THEN "finished"
               ELSE status
  /\ history' = history
  /\ IF handlePreviewOpenEvent(data)
     THEN UNCHANGED <<pending, outbound>>
     ELSE LET tMessage == transformMessage(data)
          IN /\ pending' = IF data.type \notin skipTransformTypes /\ tMessage # Null
                           THEN addOrUpdateMessage(pending, tMessage)
                           ELSE pending
             /\ outbound' = outbound (+) SetToBag({[type |-> data.type,
                                                   msg_id |-> data.msg_id,
                                                   conversation_id |-> data.conversation_id]})

\* a listener that looks for preview-open events before anything else
onGeminiMessage_PreviewFirst(data) ==
  /\ history' = history
  /\ IF handlePreviewOpenEvent(data)
     THEN UNCHANGED <<status, pending, outbound>>
     ELSE LET stamped == [data EXCEPT !.conversation_id = ConversationId]
              tMessage == transformMessage(stamped)
          IN /\ status' = IF data.type = "start" THEN "running"
                          ELSE IF data.type = "finish" THEN "finished"
                          ELSE status
             /\ pending' = IF stamped.type \notin skipTransformTypes /\ tMessage # Null
                           THEN addOrUpdateMessage(pending, tMessage)
                           ELSE pending
             /\ outbound' = outbound (+) SetToBag({[type |-> stamped.type,
                                                   msg_id |-> stamped.msg_id,
                                                   conversation_id |-> stamped.conversation_id]})

\* a listener that returns when the transform gives no message
onGeminiMessage_ReturnOnNull(data) ==
  /\ status' = IF data.type = "start" THEN "running"
               ELSE IF data.type = "finish" THEN "finished"
               ELSE status
  /\ history' = history
  /\ IF handlePreviewOpenEvent(data)
     THEN UNCHANGED <<pending, outbound>>
     ELSE LET stamped == [data EXCEPT !.conversation_id = ConversationId]
              tMessage == transformMessage(stamped)
          IN IF stamped.type \notin skipTransformTypes /\ tMessage = Null
             THEN UNCHANGED <<pending, outbound>>
             ELSE /\ pending' = IF stamped.type \notin skipTransformTypes
                                THEN addOrUpdateMessage(pending, tMessage)
                                ELSE pending
                  /\ outbound' = outbound (+) SetToBag({[type |-> stamped.type,
                                                        msg_id |-> stamped.msg_id,
                                                        conversation_id |-> stamped.conversation_id]})

\* init(): the 'gemini.message' listener, GeminiAgentManager.ts 158-182
onGeminiMessage(data) ==
  /\ status' = IF data.type = "start" THEN "running"
               ELSE IF data.type = "finish" THEN "finished"
               ELSE status
  /\ history' = history
  /\ IF handlePreviewOpenEvent(data)
     THEN UNCHANGED <<pending, outbound>>
     ELSE LET stamped == [data EXCEPT !.conversation_id = ConversationId]
              tMessage == transformMessage(stamped)
          IN /\ pending' = IF stamped.type \notin skipTransformTypes /\ tMessage # Null
                           THEN addOrUpdateMessage(pending, tMessage)
                           ELSE pending
             /\ outbound' = outbound (+) SetToBag({[type |-> stamped.type,
                                                   msg_id |-> stamped.msg_id,
                                                   conversation_id |-> stamped.conversation_id]})

Event(type, data, msg_id, conv, preview) ==
  [type |-> type, data |-> data, msg_id |-> msg_id,
   conversation_id |-> conv, preview |-> preview]

\* -------------------------------------------------------- configuration
EmptyMap == <<>>

Put(f, k, v) == [x \in DOMAIN f \cup {k} |-> IF x = k THEN v ELSE f[x]]

\* getMcpServers, the body of the forEach (GeminiAgentManager.ts 107-114)
McpEntry_AnyTransport(mcp, server) ==
  Put(mcp, server.name, [command |-> server.transport.command,
                         args |-> IF server.transport.args = "unset" THEN <<>>
                                  ELSE server.transport.args,
                         description |-> server.description])

McpEntry(mcp, server) ==
  IF server.transport.type = "stdio"
  THEN Put(mcp, server.name, [command |-> server.transport.command,
                              args |-> IF server.transport.args = "unset" THEN <<>>
                                       ELSE server.transport.args,
                              description |-> server.description])
  ELSE mcp

\* the filter of line 104 followed by the forEach, in list order
RECURSIVE McpProject(_, _)
McpProject(servers, mcp) ==
  IF servers = <<>> THEN mcp
  ELSE LET server == Head(servers)
       IN McpProject(Tail(servers),
                     IF server.enabled /\ server.status = "connected"
                     THEN McpEntry(mcp, server)
                     ELSE mcp)

\* getMcpServers, GeminiAgentManager.ts 94-121: a failed read, a missing
\* value and a value that is not an array all give the empty map
getMcpServers(store) ==
  IF store.kind = "array" THEN McpProject(store.servers, EmptyMap) ELSE EmptyMap

\* lines 65-76: the project of the signed-in account, "unset" for undefined
resolveProjectId(config, oauth) ==
  IF /\ oauth.kind = "info"
     /\ oauth.email \notin {"unset", ""}
     /\ config.kind = "config"
     /\ config.hasAccountProjects
  THEN IF oauth.email \in DOMAIN config.accountProjects
       THEN config.accountProjects[oauth.email]
       ELSE "unset"
  ELSE "unset"

\* start options that let the spread configuration show through
StartOptions_Spread(config, projectId, mcpServers) ==
  [GOOGLE_CLOUD_PROJECT |-> IF projectId = "unset" /\ config.kind = "config"
                            THEN config.GOOGLE_CLOUD_PROJECT
                            ELSE projectId,
   mcpServers |-> mcpServers]

\* lines 78-87: the object literal handed to start; GOOGLE_CLOUD_PROJECT is
\* written after the spread of config and so replaces the stored value
StartOptions(config, projectId, mcpServers) ==
  [GOOGLE_CLOUD_PROJECT |-> projectId, mcpServers |-> mcpServers]

\* injectHistoryFromDatabase (body outside this file set): the live session's
\* injected history is replaced by the ids of the persisted messages
injectHistoryFromDatabase_Append(s, h) == s \o [i \in 1..Len(h) |-> h[i].id]

injectHistoryFromDatabase(s, h) == [i \in 1..Len(h) |-> h[i].id]

\* ------------------------------------------------------------ bootstrap
\* constructor, GeminiAgentManager.ts 61-91: Promise.all of the two config
\* reads, then the account lookup and start, then history injection; any
\* stage may reject.
\* a chain in which a failed or malformed read of the MCP servers rejects
\* Promise.all, so that start is reached only with a stored list
BootstrapConfigResolved_McpStrict ==
  /\ bootstrap = "resolving"
  /\ mcpConfig.kind = "array"
  /\ bootstrap' = "starting"
  /\ startOptions' = StartOptions(geminiConfig,
                                  resolveProjectId(geminiConfig, oauthInfo),
                                  getMcpServers(mcpConfig))
  /\ UNCHANGED <<session, msgVars, calls, proc, nEvents, toolVars, envVars, ctcVars>>

BootstrapConfigResolved ==
  /\ bootstrap = "resolving"
  /\ bootstrap' = "starting"
  /\ startOptions' = StartOptions(geminiConfig,
                                  resolveProjectId(geminiConfig, oauthInfo),
                                  getMcpServers(mcpConfig))
  /\ UNCHANGED <<session, msgVars, calls, proc, nEvents, toolVars, envVars, ctcVars>>

BootstrapStarted ==
  /\ bootstrap = "starting"
  /\ bootstrap' = "injecting"
  /\ UNCHANGED <<startOptions, session, msgVars, calls, proc, nEvents, toolVars, envVars, ctcVars>>

BootstrapInjected ==
  /\ bootstrap = "injecting"
  /\ bootstrap' = "resolved"
  /\ session' = injectHistoryFromDatabase(session, history)
  /\ UNCHANGED <<startOptions, msgVars, calls, proc, nEvents, toolVars, envVars, ctcVars>>

\* a chain whose last stage is attached with finally, so that it also runs
\* when configuration resolution or start has failed
BootstrapRejected_Finally ==
  /\ bootstrap \in {"resolving", "starting", "injecting"}
  /\ bootstrap' = "rejected"
  /\ session' = injectHistoryFromDatabase(session, history)
  /\ UNCHANGED <<startOptions, msgVars, calls, proc, nEvents, toolVars, envVars, ctcVars>>

BootstrapRejected ==
  /\ bootstrap \in {"resolving", "starting", "injecting"}
  /\ bootstrap' = "rejected"
  /\ UNCHANGED <<startOptions, session, msgVars, calls, proc, nEvents, toolVars, envVars, ctcVars>>

\* a reload that awaits the bootstrap chain first
reloadContext_AwaitBootstrap ==
  /\ bootstrap = "resolved"
  /\ session' = injectHistoryFromDatabase(session, history)
  /\ UNCHANGED <<bootstrap, startOptions, msgVars, calls, proc, nEvents, toolVars, envVars, ctcVars>>

\* reloadContext, GeminiAgentManager.ts 190-193
reloadContext ==
  /\ session' = injectHistoryFromDatabase(session, history)
  /\ UNCHANGED <<bootstrap, startOptions, msgVars, calls, proc, nEvents, toolVars, envVars, ctcVars>>

\* ------------------------------------------------ ConversationToolConfig
\* conversation-tool-config.ts; the object's fields keep their names.
SearchEngines == {"google", "default"}
AuthTypes == {"USE_OPENAI", "LOGIN_WITH_GOOGLE", "USE_GEMINI", "USE_VERTEX_AI"}
AuxOutcomes == {"ok", "initialize", "refreshAuth"}   \* "ok" or the call that throws

\* field initializers and constructor, lines 24-33
ConversationToolConfig(webSearchEngine) ==
  [useGeminiWebSearch |-> FALSE,
   useAionuiWebFetch |-> FALSE,
   geminiModel |-> "null",
   excludeTools |-> <<>>,
   dedicatedGeminiClient |-> "null",
   dedicatedConfig |-> "null",
   webSearchEngine |-> IF webSearchEngine = "unset" THEN "default" ELSE webSearchEngine]

\* a resolution that replaces the built-in fetch tool for OpenAI models only
initializeForConversation_FetchForOpenAI(a) ==
  /\ authType' = a
  /\ toolConfig' =
       IF a # "USE_OPENAI" THEN toolConfig
       ELSE IF toolConfig.webSearchEngine = "google"
       THEN [toolConfig EXCEPT !.useAionuiWebFetch = TRUE,
                               !.useGeminiWebSearch = TRUE,
                               !.excludeTools = Append(Append(@, "web_fetch"), "google_web_search")]
       ELSE [toolConfig EXCEPT !.useAionuiWebFetch = TRUE,
                               !.excludeTools = Append(@, "web_fetch")]
  /\ UNCHANGED <<bootVars, envVars, msgVars, calls, proc, nEvents, toolVars,
                 toolRegistry, clientTools, registerCalls, preference>>

\* a resolution that follows the preference alone
initializeForConversation_AnyAuth(a) ==
  /\ authType' = a
  /\ toolConfig' =
       IF toolConfig.webSearchEngine = "google"
       THEN [toolConfig EXCEPT !.useAionuiWebFetch = TRUE,
                               !.useGeminiWebSearch = TRUE,
                               !.excludeTools = Append(Append(@, "web_fetch"), "google_web_search")]
       ELSE [toolConfig EXCEPT !.useAionuiWebFetch = TRUE,
                               !.excludeTools = Append(@, "web_fetch")]
  /\ UNCHANGED <<bootVars, envVars, msgVars, calls, proc, nEvents, toolVars,
                 toolRegistry, clientTools, registerCalls, preference>>

\* initializeForConversation, lines 39-51
initializeForConversation(a) ==
  /\ authType' = a
  /\ toolConfig' =
       IF toolConfig.webSearchEngine = "google" /\ a = "USE_OPENAI"
       THEN [toolConfig EXCEPT !.useAionuiWebFetch = TRUE,
                               !.useGeminiWebSearch = TRUE,
                               !.excludeTools = Append(Append(@, "web_fetch"), "google_web_search")]
       ELSE [toolConfig EXCEPT !.useAionuiWebFetch = TRUE,
                               !.excludeTools = Append(@, "web_fetch")]
  /\ UNCHANGED <<bootVars, envVars, msgVars, calls, proc, nEvents, toolVars,
                 toolRegistry, clientTools, registerCalls, preference>>

\* findBestGeminiModel, lines 56-76
findBestGeminiModel(tc) ==
  IF tc.webSearchEngine = "google" THEN "gemini-2.5-flash" ELSE "null"

\* a getConfig that consults the global preference at the time of the call
getConfig_Live(tc) ==
  [useGeminiWebSearch |-> tc.useGeminiWebSearch /\ preference = "google",
   useAionuiWebFetch |-> tc.useAionuiWebFetch,
   geminiModel |-> tc.geminiModel,
   excludeTools |-> IF preference = "google" THEN tc.excludeTools
                    ELSE SelectSeq(tc.excludeTools, LAMBDA x : x # "google_web_search")]

\* getConfig, lines 99-106
getConfig(tc) ==
  [useGeminiWebSearch |-> tc.useGeminiWebSearch,
   useAionuiWebFetch |-> tc.useAionuiWebFetch,
   geminiModel |-> tc.geminiModel,
   excludeTools |-> tc.excludeTools]

\* lines 126-139: the dedicated Config is stored before it is initialized
\* and authenticated, the client only after both succeeded
\* a registration that builds the dedicated Config whether or not one exists
CreatesDedicated_Always(tc) ==
  tc.useGeminiWebSearch /\ findBestGeminiModel(tc) # "null"

CreatesDedicated(tc) ==
  tc.useGeminiWebSearch /\ tc.dedicatedConfig = "null" /\ findBestGeminiModel(tc) # "null"

\* createDedicatedGeminiConfig, lines 81-94: a new Config whose sessionId
\* carries the time of its construction, here the number of the call
createDedicatedGeminiConfig(call) == "config-" \o ToString(call)
getGeminiClient(call) == "client-" \o ToString(call)

\* a registration that initializes and authenticates again a dedicated
\* Config left without its client
WithDedicated_Retry(tc, aux) ==
  IF CreatesDedicated(tc)
  THEN [tc EXCEPT !.geminiModel = findBestGeminiModel(tc),
                  !.dedicatedConfig = createDedicatedGeminiConfig(registerCalls.n + 1),
                  !.dedicatedGeminiClient = IF aux = "ok"
                                            THEN getGeminiClient(registerCalls.n + 1)
                                            ELSE @]
  ELSE IF tc.useGeminiWebSearch /\ tc.dedicatedGeminiClient = "null" /\ aux = "ok"
  THEN [tc EXCEPT !.dedicatedGeminiClient = getGeminiClient(registerCalls.n + 1)]
  ELSE tc

WithDedicated(tc, aux) ==
  IF CreatesDedicated(tc)
  THEN [tc EXCEPT !.geminiModel = findBestGeminiModel(tc),
                  !.dedicatedConfig = createDedicatedGeminiConfig(registerCalls.n + 1),
                  !.dedicatedGeminiClient = IF aux = "ok"
                                            THEN getGeminiClient(registerCalls.n + 1)
                                            ELSE @]
  ELSE tc

\* registerCustomTools with the search-tool block outside any try
registerCustomTools_NoCatch(aux) ==
  /\ registerCalls.n < MaxRegisters
  /\ LET thrown == CreatesDedicated(toolConfig) /\ aux # "ok"
         tc == WithDedicated(toolConfig, aux)
         fetch == IF toolConfig.useAionuiWebFetch THEN {"aionui_web_fetch"} ELSE {}
         search == IF /\ toolConfig.useGeminiWebSearch
                      /\ ~thrown
                      /\ tc.dedicatedConfig # "null"
                      /\ tc.dedicatedGeminiClient # "null"
                   THEN {"gemini_web_search"} ELSE {}
     IN /\ toolConfig' = tc
        /\ toolRegistry' = toolRegistry \cup fetch \cup search
        /\ clientTools' = IF thrown THEN clientTools ELSE toolRegistry'
        /\ registerCalls' = [n |-> registerCalls.n + 1,
                             last |-> IF thrown THEN "rejected" ELSE "resolved"]
  /\ UNCHANGED <<bootVars, envVars, msgVars, calls, proc, nEvents, toolVars,
                 authType, preference>>

\* registerCustomTools, lines 112-155
registerCustomTools(aux) ==
  /\ registerCalls.n < MaxRegisters
  /\ LET thrown == CreatesDedicated(toolConfig) /\ aux # "ok"
         tc == WithDedicated(toolConfig, aux)
         fetch == IF toolConfig.useAionuiWebFetch THEN {"aionui_web_fetch"} ELSE {}
         search == IF /\ toolConfig.useGeminiWebSearch
                      /\ ~thrown
                      /\ tc.dedicatedConfig # "null"
                      /\ tc.dedicatedGeminiClient # "null"
                   THEN {"gemini_web_search"} ELSE {}
     IN /\ toolConfig' = tc
        /\ toolRegistry' = toolRegistry \cup fetch \cup search
        /\ clientTools' = toolRegistry'
        /\ registerCalls' = [n |-> registerCalls.n + 1, last |-> "resolved"]
  /\ UNCHANGED <<bootVars, envVars, msgVars, calls, proc, nEvents, toolVars,
                 authType, preference>>

\* the user edits the global search-engine preference
SetPreference(p) ==
  /\ p # preference
  /\ preference' = p
  /\ UNCHANGED <<bootVars, envVars, msgVars, calls, proc, nEvents, toolVars,
                 toolConfig, authType, toolRegistry, clientTools, registerCalls>>

\* ---------------------------------------------------------- sendMessage
NextSlot == CHOOSE k \in CallSlots : calls[k].pc = "none" /\ \A j \in 1..(k-1) : calls[j].pc # "none"

\* forwards without recording the user message
sendMessage_NoPersist(msg_id, input) ==
  /\ \E k \in CallSlots : calls[k].pc = "none"
  /\ status' = "pending"
  /\ calls' = [calls EXCEPT ![NextSlot] =
                 [pc |-> "awaiting", msg_id |-> msg_id, input |-> input]]
  /\ UNCHANGED <<bootVars, envVars, ctcVars, history, pending, outbound, proc, nEvents, toolVars>>

\* writes the record itself instead of handing it to the store
sendMessage_Insert(msg_id, input) ==
  /\ \E k \in CallSlots : calls[k].pc = "none"
  /\ LET message == [id |-> msg_id, type |-> "text", position |-> "right",
                     conversation_id |-> ConversationId, content |-> input]
     IN /\ history' = Append(FlushAll(history, pending), message)
        /\ pending' = <<>>
  /\ status' = "pending"
  /\ calls' = [calls EXCEPT ![NextSlot] =
                 [pc |-> "awaiting", msg_id |-> msg_id, input |-> input]]
  /\ UNCHANGED <<bootVars, envVars, ctcVars, outbound, proc, nEvents, toolVars>>

\* sendMessage up to its await, GeminiAgentManager.ts 123-135
sendMessage(msg_id, input) ==
  /\ \E k \in CallSlots : calls[k].pc = "none"
  /\ LET message == [id |-> msg_id, type |-> "text", position |-> "right",
                     conversation_id |-> ConversationId, content |-> input]
     IN /\ history' = addMessage(history, pending, message)
        /\ pending' = <<>>
  /\ status' = "pending"
  /\ calls' = [calls EXCEPT ![NextSlot] =
                 [pc |-> "awaiting", msg_id |-> msg_id, input |-> input]]
  /\ UNCHANGED <<bootVars, envVars, ctcVars, outbound, proc, nEvents, toolVars>>

\* forwards without awaiting the bootstrap promise
sendMessageForward_NoAwait(k) ==
  /\ calls[k].pc = "awaiting"
  /\ calls' = [calls EXCEPT ![k].pc = "forwarded"]
  /\ proc' = [proc EXCEPT ![k] = "queued"]
  /\ UNCHANGED <<bootVars, envVars, ctcVars, msgVars, nEvents, toolVars>>

\* .then(() => super.sendMessage(data)), GeminiAgentManager.ts 151
sendMessageForward(k) ==
  /\ calls[k].pc = "awaiting"
  /\ bootstrap = "resolved"
  /\ calls' = [calls EXCEPT ![k].pc = "forwarded"]
  /\ proc' = [proc EXCEPT ![k] = "queued"]
  /\ UNCHANGED <<bootVars, envVars, ctcVars, msgVars, nEvents, toolVars>>

\* runs the bootstrap chain again when it has failed
sendMessageCatch_Retry(k) ==
  /\ calls[k].pc = "awaiting"
  /\ bootstrap = "rejected"
  /\ bootstrap' = "resolving"
  /\ UNCHANGED <<startOptions, session, envVars, ctcVars, msgVars, calls, proc, nEvents, toolVars>>

\* a handler that reports the failure and returns, so that the chained
\* then forwards the message all the same
sendMessageCatch_Swallow(k) ==
  /\ calls[k].pc = "awaiting"
  /\ bootstrap = "rejected"
  /\ onGeminiMessage(Event("error", "boot-failed", calls[k].msg_id, "none", FALSE))
  /\ calls' = [calls EXCEPT ![k].pc = "forwarded"]
  /\ proc' = [proc EXCEPT ![k] = "queued"]
  /\ UNCHANGED <<bootVars, envVars, ctcVars, nEvents, toolVars>>

\* tags the error event with the first call's id
sendMessageCatch_FirstTag(k) ==
  /\ calls[k].pc = "awaiting"
  /\ bootstrap = "rejected"
  /\ onGeminiMessage(Event("error", "boot-failed", calls[1].msg_id, "none", FALSE))
  /\ calls' = [calls EXCEPT ![k].pc = "syncing"]
  /\ UNCHANGED <<bootVars, envVars, ctcVars, proc, nEvents, toolVars>>

\* rejects at once instead of through nextTickToLocalFinish
sendMessageCatch_RejectNow(k) ==
  /\ calls[k].pc = "awaiting"
  /\ bootstrap = "rejected"
  /\ onGeminiMessage(Event("error", "boot-failed", calls[k].msg_id, "none", FALSE))
  /\ calls' = [calls EXCEPT ![k].pc = "rejected"]
  /\ UNCHANGED <<bootVars, envVars, ctcVars, proc, nEvents, toolVars>>

\* .catch((e) => ...), GeminiAgentManager.ts 136-150
sendMessageCatch(k) ==
  /\ calls[k].pc = "awaiting"
  /\ bootstrap = "rejected"
  /\ onGeminiMessage(Event("error", "boot-failed", calls[k].msg_id, "none", FALSE))
  /\ calls' = [calls EXCEPT ![k].pc = "syncing"]
  /\ UNCHANGED <<bootVars, envVars, ctcVars, proc, nEvents, toolVars>>

\* nextTickToLocalFinish(() => reject(e)): the callback runs once the store
\* has settled (modelled from the specification)
nextTickToLocalFinish(k) ==
  /\ calls[k].pc = "syncing"
  /\ pending = <<>>
  /\ calls' = [calls EXCEPT ![k].pc = "rejected"]
  /\ UNCHANGED <<bootVars, envVars, ctcVars, msgVars, proc, nEvents, toolVars>>

\* the store writes its oldest buffered message (modelled from the specification)
LocalSync ==
  /\ pending # <<>>
  /\ history' = Upsert(history, Head(pending))
  /\ pending' = Tail(pending)
  /\ UNCHANGED <<bootVars, envVars, ctcVars, status, outbound, calls, proc, nEvents, toolVars>>

\* ----------------------------------------------------------- subprocess
\* The agent subprocess, modelled from the specification: it answers each forwarded
\* message with start, streamed events and finish.
SubprocessStart(k, conv, preview) ==
  /\ proc[k] = "queued"
  /\ proc' = [proc EXCEPT ![k] = "started"]
  /\ onGeminiMessage(Event("start", "", calls[k].msg_id, conv, preview))
  /\ UNCHANGED <<bootVars, envVars, ctcVars, calls, nEvents, toolVars>>

SubprocessFinish(k, conv, preview) ==
  /\ proc[k] = "started"
  /\ proc' = [proc EXCEPT ![k] = "finished"]
  /\ onGeminiMessage(Event("finish", "", calls[k].msg_id, conv, preview))
  /\ UNCHANGED <<bootVars, envVars, ctcVars, calls, nEvents, toolVars>>

\* The subprocess of a forwarded call exits, or its channel closes, before
\* the turn has finished. The listener of init handles 'gemini.message'
\* alone (155-183), so nothing of the manager reacts: the status keeps the
\* value of the last start or finish event, and the status type has no
\* 'error' member (storage.ts 76).
SubprocessTerminate(k) ==
  /\ proc[k] \in {"queued", "started"}
  /\ proc' = [proc EXCEPT ![k] = "terminated"]
  /\ UNCHANGED <<bootVars, envVars, ctcVars, msgVars, calls, nEvents, toolVars>>

StreamTypes == {"content", "thought", "finished"}

SubprocessStream(k, type, data, conv, preview) ==
  /\ proc[k] = "started"
  /\ nEvents < MaxEvents
  /\ nEvents' = nEvents + 1
  /\ onGeminiMessage(Event(type, data, calls[k].msg_id, conv, preview))
  /\ UNCHANGED <<bootVars, envVars, ctcVars, calls, proc, toolVars>>


\* ------------------------------------------------- tool confirmation UI
Categories == {"edit", "exec", "info", "mcp"}
Outcomes == {"ProceedOnce", "ProceedAlways", "ProceedAlwaysTool", "ProceedAlwaysServer", "Cancel"}

\* a switch whose info case fell through to the default
useConfirmationButtons_InfoAsMcp(confirmationDetails) ==
  IF confirmationDetails = "none" THEN {}
  ELSE IF confirmationDetails \in {"edit", "exec"}
  THEN {"ProceedOnce", "ProceedAlways", "Cancel"}
  ELSE {"ProceedOnce", "ProceedAlwaysTool", "ProceedAlwaysServer", "Cancel"}

\* useConfirmationButtons, MessageToolGroup.tsx 34-121: the options offered
useConfirmationButtons(confirmationDetails) ==
  IF confirmationDetails = "none" THEN {}
  ELSE IF confirmationDetails \in {"edit", "exec", "info"}
  THEN {"ProceedOnce", "ProceedAlways", "Cancel"}
  ELSE {"ProceedOnce", "ProceedAlwaysTool", "ProceedAlwaysServer", "Cancel"}

isLoading_Confirming(s) == s # "Success" /\ s # "Error" /\ s # "Confirming"

\* MessageToolGroup.tsx 221
isLoading(s) == s # "Success" /\ s # "Error" /\ s # "Canceled"

\* posts under a key shared by the calls of the message: the subprocess
\* resolves another pending call of it
confirmMessage_PerTurn(data) ==
  /\ Cardinality(posted) < MaxPosted
  /\ posted' = posted \cup
       {[key |-> IF continuations \ {data.callId} # {}
                 THEN CHOOSE d \in continuations \ {data.callId} : TRUE
                 ELSE data.callId,
         value |-> data.confirmKey, request |-> data]}
  /\ UNCHANGED <<bootVars, envVars, ctcVars, msgVars, calls, proc, nEvents, toolCalls, continuations, besideResolve>>

\* registers a continuation for a callId that has none
confirmMessage_Register(data) ==
  /\ Cardinality(posted) < MaxPosted
  /\ posted' = posted \cup {[key |-> data.callId, value |-> data.confirmKey, request |-> data]}
  /\ continuations' = continuations \cup {data.callId}
  /\ UNCHANGED <<bootVars, envVars, ctcVars, msgVars, calls, proc, nEvents, toolCalls, besideResolve>>

\* settles the continuation in the manager at the moment the decision is posted
confirmMessage_Settle(data) ==
  /\ Cardinality(posted) < MaxPosted
  /\ posted' = posted \cup {[key |-> data.callId, value |-> data.confirmKey, request |-> data]}
  /\ continuations' = continuations \ {data.callId}
  /\ UNCHANGED <<bootVars, envVars, ctcVars, msgVars, calls, proc, nEvents, toolCalls, besideResolve>>

\* posts a fixed approval instead of the selected outcome
confirmMessage_Proceed(data) ==
  /\ Cardinality(posted) < MaxPosted
  /\ posted' = posted \cup {[key |-> data.callId, value |-> "ProceedOnce", request |-> data]}
  /\ UNCHANGED <<bootVars, envVars, ctcVars, msgVars, calls, proc, nEvents, toolCalls, continuations, besideResolve>>

\* confirmMessage, GeminiAgentManager.ts 186-188:
\* postMessagePromise(data.callId, data.confirmKey)
confirmMessage(data) ==
  /\ Cardinality(posted) < MaxPosted
  /\ posted' = posted \cup {[key |-> data.callId, value |-> data.confirmKey, request |-> data]}
  /\ UNCHANGED <<bootVars, envVars, ctcVars, msgVars, calls, proc, nEvents, toolCalls, continuations, besideResolve>>

\* a group that renders the buttons of a call whatever its status
onConfirm_AnyStatus(callId, selected) ==
  /\ toolCalls[callId].confirmationDetails # "none"
  /\ selected \in useConfirmationButtons(toolCalls[callId].confirmationDetails)
  /\ confirmMessage([confirmKey |-> selected, msg_id |-> calls[toolCalls[callId].turn].msg_id,
                     callId |-> callId])

\* a group that stops taking confirmations once one of its calls has failed
onConfirm_BlockedByError(callId, selected) ==
  /\ \A c \in ToolCallIds : toolCalls[c].status # "Error"
  /\ toolCalls[callId].confirmationDetails # "none"
  /\ toolCalls[callId].status = "Confirming"
  /\ selected \in useConfirmationButtons(toolCalls[callId].confirmationDetails)
  /\ confirmMessage([confirmKey |-> selected, msg_id |-> calls[toolCalls[callId].turn].msg_id,
                     callId |-> callId])

\* ConfirmationDetails and onConfirm, MessageToolGroup.tsx 155-181 and 223-245:
\* the radio group and button exist while the call is Confirming
onConfirm(callId, selected) ==
  /\ toolCalls[callId].confirmationDetails # "none"
  /\ toolCalls[callId].status = "Confirming"
  /\ selected \in useConfirmationButtons(toolCalls[callId].confirmationDetails)
  /\ confirmMessage([confirmKey |-> selected, msg_id |-> calls[toolCalls[callId].turn].msg_id,
                     callId |-> callId])

\* a confirmMessage request that does not come from the rendered buttons
confirmMessageRequest(callId, confirmKey, msg_id) ==
  confirmMessage([confirmKey |-> confirmKey, msg_id |-> msg_id, callId |-> callId])

\* --------------------------------------------- tool calls (subprocess)
\* The tool scheduler runs in the subprocess
\* and is modelled from the specification: Invoked -> Confirming ->
\* {Success | Error | Canceled}, a continuation per Confirming call.
\* every change of a call is streamed as a tool_group event of its turn
ToolEvent(k, s) == Event("tool_group", "group", calls[k].msg_id, "none", FALSE)

ToolInvoke(k, callId, details) ==
  /\ proc[k] = "started"
  /\ toolCalls[callId].status = "None"
  /\ toolCalls' = [toolCalls EXCEPT ![callId] =
                     [status |-> "Invoked", confirmationDetails |-> details,
                      resultDisplay |-> "none", outcome |-> "none", turn |-> k]]
  /\ onGeminiMessage(ToolEvent(k, "Invoked"))
  /\ UNCHANGED <<bootVars, envVars, ctcVars, calls, proc, nEvents, continuations, posted, besideResolve>>

ToolAwaitApproval_Unflagged(callId) ==
  /\ toolCalls[callId].status = "Invoked"
  /\ toolCalls' = [toolCalls EXCEPT ![callId].status = "Confirming"]
  /\ continuations' = continuations \cup {callId}
  /\ onGeminiMessage(ToolEvent(toolCalls[callId].turn, "Confirming"))
  /\ UNCHANGED <<bootVars, envVars, ctcVars, calls, proc, nEvents, posted, besideResolve>>

ToolAwaitApproval(callId) ==
  /\ toolCalls[callId].status = "Invoked"
  /\ toolCalls[callId].confirmationDetails # "none"
  /\ toolCalls' = [toolCalls EXCEPT ![callId].status = "Confirming"]
  /\ continuations' = continuations \cup {callId}
  /\ onGeminiMessage(ToolEvent(toolCalls[callId].turn, "Confirming"))
  /\ UNCHANGED <<bootVars, envVars, ctcVars, calls, proc, nEvents, posted, besideResolve>>

\* a scheduler that gives up waiting and runs a call still awaiting approval
ToolExecute_Unapproved(callId, result) ==
  /\ toolCalls[callId].status \in {"Invoked", "Confirming"}
  /\ toolCalls' = [toolCalls EXCEPT ![callId].status = result, ![callId].resultDisplay = "out"]
  /\ onGeminiMessage(ToolEvent(toolCalls[callId].turn, result))
  /\ UNCHANGED <<bootVars, envVars, ctcVars, calls, proc, nEvents, continuations, posted, besideResolve>>

ToolExecute(callId, result) ==
  /\ toolCalls[callId].status = "Invoked"
  /\ toolCalls[callId].confirmationDetails = "none"
  /\ toolCalls' = [toolCalls EXCEPT ![callId].status = result, ![callId].resultDisplay = "out"]
  /\ onGeminiMessage(ToolEvent(toolCalls[callId].turn, result))
  /\ UNCHANGED <<bootVars, envVars, ctcVars, calls, proc, nEvents, continuations, posted, besideResolve>>

\* the subprocess takes a posted confirmation: it resolves the continuation
\* registered under the key, if there is one
SubprocessConfirm(p, result) ==
  /\ p \in posted
  /\ posted' = posted \ {p}
  /\ IF p.key \in continuations
     THEN /\ continuations' = continuations \ {p.key}
          /\ besideResolve' = (besideResolve \/ continuations \ {p.key} # {})
          /\ LET s == IF p.value = "Cancel" THEN "Canceled" ELSE result
             IN /\ toolCalls' = [toolCalls EXCEPT
                                   ![p.key].status = s,
                                   ![p.key].outcome = p.value,
                                   ![p.key].resultDisplay =
                                      IF p.value = "Cancel" THEN "none" ELSE "out"]
                /\ onGeminiMessage(ToolEvent(toolCalls[p.key].turn, s))
     ELSE UNCHANGED <<msgVars, toolCalls, continuations, besideResolve>>
  /\ UNCHANGED <<bootVars, envVars, ctcVars, calls, proc, nEvents>>

\* ------------------------------------------------------------------ spec
\* Message ids and inputs are interchangeable names: a call uses a value
\* already used by an earlier call or the first unused one.
UsedMsgIds == {calls[k].msg_id : k \in {j \in CallSlots : calls[j].pc # "none"}}
UsedInputs == {calls[k].input : k \in {j \in CallSlots : calls[j].pc # "none"}}
Sendable(seq, used) ==
  used \cup (IF Cardinality(used) < Len(seq) THEN {seq[Cardinality(used) + 1]} ELSE {})

\* inputs of the bootstrap chain
Transports == {"stdio", "sse", "http", "streamable_http"}
Statuses == {"connected", "disconnected", "error", "testing", "unset"}
ServerNames == {"a", "b"}
Emails == {"alice", "bob"}
Projects == {"pa", "pb"}

Server(name, enabled, st, type) ==
  [name |-> name, description |-> "unset", enabled |-> enabled, status |-> st,
   transport |-> [type |-> type,
                  command |-> IF type = "stdio" THEN "run-" \o name ELSE "unset",
                  args |-> "unset",
                  url |-> IF type = "stdio" THEN "unset" ELSE "url-" \o name]]

Servers == {Server(n, e, st, t) : n \in ServerNames, e \in BOOLEAN, st \in Statuses, t \in Transports}

ExampleServers == <<Server("a", TRUE, "connected", "stdio"),
                    Server("b", TRUE, "connected", "http"),
                    Server("c", FALSE, "connected", "stdio")>>

McpStores ==
  {[kind |-> k] : k \in {"throws", "unset", "object"}}
  \cup {[kind |-> "array", servers |-> l] :
          l \in {<<>>, ExampleServers} \cup {<<x>> : x \in Servers}
                \cup {<<x, y>> : x \in Servers, y \in Servers}}

GeminiConfigs ==
  {[kind |-> "unset"]}
  \cup {[kind |-> "config", GOOGLE_CLOUD_PROJECT |-> g, hasAccountProjects |-> FALSE,
         accountProjects |-> EmptyMap] : g \in {"unset", "stale"}}
  \cup {[kind |-> "config", GOOGLE_CLOUD_PROJECT |-> g, hasAccountProjects |-> TRUE,
         accountProjects |-> m] :
          g \in {"unset", "stale"}, m \in UNION {[d -> Projects] : d \in SUBSET Emails}}

OauthInfos ==
  {[kind |-> k] : k \in {"throws", "null"}}
  \cup {[kind |-> "info", email |-> e] : e \in Emails \cup {"unset", ""}}

DefaultMcpStore == [kind |-> "array", servers |-> ExampleServers]
DefaultGeminiConfig ==
  [kind |-> "config", GOOGLE_CLOUD_PROJECT |-> "stale", hasAccountProjects |-> TRUE,
   accountProjects |-> [e \in {"alice"} |-> "pa"]]
DefaultOauthInfo == [kind |-> "info", email |-> "alice"]

\* --------------------------------------------------- MCP server registry
\* ModalMcpManagementSection (unnamed/part_000). The hooks of
\* '@/renderer/hooks/mcp' are modelled from the specification: the CRUD
\* handlers save the list to 'mcp.config', toggle and delete propagate to the
\* external agents, syncMcpToAgents and removeMcpFromAgents act on every
\* agent detected when they run.
Agents == {"claude", "codex"}
RegistryTransports == {"stdio", "http"}
ServerData == {Server(n, e, "unset", t) : n \in ServerNames, e \in BOOLEAN, t \in RegistryTransports}

mcpServers == IF mcpConfig.kind = "array" THEN mcpConfig.servers ELSE <<>>
Registered == {mcpServers[i].name : i \in 1..Len(mcpServers)}
ServerNamed(n) == mcpServers[CHOOSE i \in 1..Len(mcpServers) : mcpServers[i].name = n]

saveMcpServers(servers) == mcpConfig' = [kind |-> "array", servers |-> servers]

\* useMcpOperations: the calls are not awaited by the handlers (the void
\* calls of lines 80-82, 96-98, 112-114), so each is in flight until it runs
syncMcpToAgents(servers) == mcpOps' = mcpOps \cup {[op |-> "sync", name |-> x.name] : x \in servers}
removeMcpFromAgents(n) == mcpOps' = mcpOps \cup {[op |-> "remove", name |-> n]}

\* lines 122-137: the agents reported by getAvailableAgents, loaded once
\* when the section is mounted
loadAgents(agents) ==
  /\ detectedAgents = {}
  /\ detectedAgents' = agents
  /\ UNCHANGED <<mcpConfig, geminiConfig, oauthInfo, agentMcp, mcpOps,
                 capVars, bootVars, ctcVars, msgVars, calls, proc, nEvents, toolVars>>

\* an added server that is never synchronized to the agents
wrappedHandleAddMcpServer_NoSync(serverData) ==
  /\ serverData.name \notin Registered
  /\ saveMcpServers(Append(mcpServers, serverData))
  /\ UNCHANGED <<geminiConfig, oauthInfo, detectedAgents, agentMcp, mcpOps,
                 capVars, bootVars, ctcVars, msgVars, calls, proc, nEvents, toolVars>>

\* lines 72-86: handleAddMcpServer saves the new server; if it is enabled
\* it is synchronized to the agents
wrappedHandleAddMcpServer(serverData) ==
  /\ serverData.name \notin Registered
  /\ saveMcpServers(Append(mcpServers, serverData))
  /\ IF serverData.enabled THEN syncMcpToAgents({serverData}) ELSE mcpOps' = mcpOps
  /\ UNCHANGED <<geminiConfig, oauthInfo, detectedAgents, agentMcp,
                 capVars, bootVars, ctcVars, msgVars, calls, proc, nEvents, toolVars>>

\* lines 88-103: handleEditMcpServer replaces the edited server by the
\* submitted data; if that is enabled it is synchronized to the agents
wrappedHandleEditMcpServer(editing, serverData) ==
  /\ editing \in Registered
  /\ serverData.name = editing
  /\ saveMcpServers([i \in 1..Len(mcpServers) |->
                       IF mcpServers[i].name = editing
                       THEN [serverData EXCEPT !.status = mcpServers[i].status]
                       ELSE mcpServers[i]])
  /\ IF serverData.enabled THEN syncMcpToAgents({serverData}) ELSE mcpOps' = mcpOps
  /\ UNCHANGED <<geminiConfig, oauthInfo, detectedAgents, agentMcp,
                 capVars, bootVars, ctcVars, msgVars, calls, proc, nEvents, toolVars>>

\* lines 105-120: every imported server that is enabled is synchronized
wrappedHandleBatchImportMcpServers(serversData) ==
  /\ Len(serversData) > 0
  /\ \A i \in 1..Len(serversData) : serversData[i].name \notin Registered
  /\ \A i, j \in 1..Len(serversData) : serversData[i].name = serversData[j].name => i = j
  /\ saveMcpServers(mcpServers \o serversData)
  /\ syncMcpToAgents({serversData[i] : i \in {j \in 1..Len(serversData) : serversData[j].enabled}})
  /\ UNCHANGED <<geminiConfig, oauthInfo, detectedAgents, agentMcp,
                 capVars, bootVars, ctcVars, msgVars, calls, proc, nEvents, toolVars>>

\* useMcpServerCRUD.handleToggleMcpServer (line 218, onToggleServer)
handleToggleMcpServer(n, enabled) ==
  /\ n \in Registered
  /\ ServerNamed(n).enabled # enabled
  /\ saveMcpServers([i \in 1..Len(mcpServers) |->
                       IF mcpServers[i].name = n
                       THEN [mcpServers[i] EXCEPT !.enabled = enabled]
                       ELSE mcpServers[i]])
  /\ IF enabled THEN syncMcpToAgents({ServerNamed(n)}) ELSE removeMcpFromAgents(n)
  /\ UNCHANGED <<geminiConfig, oauthInfo, detectedAgents, agentMcp,
                 capVars, bootVars, ctcVars, msgVars, calls, proc, nEvents, toolVars>>

\* lines 148-152: handleConfirmDelete hands the server to handleDeleteMcpServer
handleConfirmDelete(serverToDelete) ==
  /\ serverToDelete \in Registered
  /\ saveMcpServers(SelectSeq(mcpServers, LAMBDA x : x.name # serverToDelete))
  /\ removeMcpFromAgents(serverToDelete)
  /\ UNCHANGED <<geminiConfig, oauthInfo, detectedAgents, agentMcp,
                 capVars, bootVars, ctcVars, msgVars, calls, proc, nEvents, toolVars>>

\* useMcpConnection.handleTestMcpConnection: the outcome of a connection test
handleTestMcpConnection(n, st) ==
  /\ n \in Registered
  /\ ServerNamed(n).status # st
  /\ saveMcpServers([i \in 1..Len(mcpServers) |->
                       IF mcpServers[i].name = n
                       THEN [mcpServers[i] EXCEPT !.status = st]
                       ELSE mcpServers[i]])
  /\ UNCHANGED <<geminiConfig, oauthInfo, detectedAgents, agentMcp, mcpOps,
                 capVars, bootVars, ctcVars, msgVars, calls, proc, nEvents, toolVars>>

\* a call of useMcpOperations runs: on every agent detected at that moment
McpOperationRun(o) ==
  /\ o \in mcpOps
  /\ mcpOps' = mcpOps \ {o}
  /\ agentMcp' = [a \in Agents |->
                    IF a \notin detectedAgents THEN agentMcp[a]
                    ELSE IF o.op = "sync" THEN agentMcp[a] \cup {o.name}
                    ELSE agentMcp[a] \ {o.name}]
  /\ UNCHANGED <<mcpConfig, geminiConfig, oauthInfo, detectedAgents,
                 capVars, bootVars, ctcVars, msgVars, calls, proc, nEvents, toolVars>>

\* ------------------------------------------------- model capabilities
\* hasModelCapability and its cache (unnamed/part_001). Results are the
\* strings "true", "false" and "undefined"; a platform rule may be "null".
ModelTypes == {"vision", "function_calling", "web_search"}
Platforms == {"DeepSeek", "custom"}
RawModelNames == {"GPT-4o", "Qwen VL Embed", "sonar_search!"}

\* getBaseModelName, lines 71-77: lower case, every character outside
\* a-z 0-9 . / - replaced by a dash, runs of dashes collapsed, a leading or
\* trailing dash removed; tabulated for the names of the model
getBaseModelName(modelName) ==
  CASE modelName = "GPT-4o" -> "gpt-4o"
    [] modelName = "Qwen VL Embed" -> "qwen-vl-embed"
    [] modelName = "sonar_search!" -> "sonar-search"

\* lines 15-24: the base names each pattern matches (4o and qwen-vl for
\* vision, gpt-4 and qwen for function_calling, search for web_search)
CAPABILITY_PATTERNS ==
  [type \in ModelTypes |->
     CASE type = "vision" -> {"gpt-4o", "qwen-vl-embed"}
       [] type = "function_calling" -> {"gpt-4o", "qwen-vl-embed"}
       [] type = "web_search" -> {"sonar-search"}]

\* lines 29-38: the base names some exclusion pattern of the type matches
\* (embed for vision and function_calling, none for web_search)
CAPABILITY_EXCLUSIONS ==
  [type \in ModelTypes |->
     CASE type = "vision" -> {"qwen-vl-embed"}
       [] type = "function_calling" -> {"qwen-vl-embed"}
       [] type = "web_search" -> {}]

\* lines 43-64, the deepseek entry
PROVIDER_CAPABILITY_RULES ==
  [platform \in {"deepseek"} |->
     [type \in ModelTypes |->
        CASE type = "vision" -> "null"
          [] type = "function_calling" -> "true"
          [] type = "web_search" -> "false"]]

toLowerCase(str) == IF str = "DeepSeek" THEN "deepseek" ELSE str

\* the capabilities field: absent, or a list of {type, isUserSelected?}
CapabilityLists ==
  {[kind |-> "unset"]}
  \cup {[kind |-> "list", caps |-> l] :
          l \in {<<>>,
                 <<[type |-> "vision", isUserSelected |-> "false"]>>,
                 <<[type |-> "vision", isUserSelected |-> "undefined"]>>,
                 <<[type |-> "web_search", isUserSelected |-> "true"]>>}}
ModelLists == {<<>>, <<"GPT-4o">>, <<"Qwen VL Embed">>, <<"Qwen VL Embed", "sonar_search!">>}

DefaultProvider ==
  [id |-> "p1", platform |-> "custom", model |-> <<>>, capabilities |-> [kind |-> "unset"]]

\* getUserSelectedCapability, lines 85-88
getUserSelectedCapability(model, type) ==
  IF model.capabilities.kind = "unset" THEN "undefined"
  ELSE LET caps == model.capabilities.caps
           found == {i \in 1..Len(caps) : caps[i].type = type}
       IN IF found = {} THEN "undefined"
          ELSE caps[CHOOSE i \in found : \A j \in found : i <= j].isUserSelected

\* getProviderCapabilityRule, lines 96-99
getProviderCapabilityRule(platform, type) ==
  IF toLowerCase(platform) \in DOMAIN PROVIDER_CAPABILITY_RULES
  THEN PROVIDER_CAPABILITY_RULES[toLowerCase(platform)][type]
  ELSE "null"

\* JSON.stringify(model.capabilities), line 109
RECURSIVE StringifyCaps(_)
StringifyCaps(caps) ==
  IF caps = <<>> THEN ""
  ELSE "{type:" \o Head(caps).type
       \o (IF Head(caps).isUserSelected = "undefined" THEN ""
           ELSE ",isUserSelected:" \o Head(caps).isUserSelected)
       \o "}" \o (IF Tail(caps) = <<>> THEN "" ELSE ",") \o StringifyCaps(Tail(caps))

\* lines 109-110
cacheKey(model, type) ==
  LET capabilitiesHash == IF model.capabilities.kind = "unset" THEN ""
                          ELSE "[" \o StringifyCaps(model.capabilities.caps) \o "]"
  IN model.id \o "-" \o model.platform \o "-" \o type \o "-" \o capabilitiesHash

\* lines 117-151: the evaluation behind the cache
Evaluate(model, type) ==
  LET userSelected == getUserSelectedCapability(model, type)
      providerRule == getProviderCapabilityRule(model.platform, type)
      hasSupport == \E i \in 1..Len(model.model) :
                      LET baseModelName == getBaseModelName(model.model[i])
                      IN /\ baseModelName \notin CAPABILITY_EXCLUSIONS[type]
                         /\ baseModelName \in CAPABILITY_PATTERNS[type]
  IN IF userSelected # "undefined" THEN userSelected
     ELSE IF providerRule # "null" THEN providerRule
     ELSE IF hasSupport THEN "true" ELSE "undefined"

\* hasModelCapability, lines 107-156
hasModelCapability(type) ==
  /\ LET key == cacheKey(provider, type)
     IN IF key \in DOMAIN modelCapabilitiesCache
        THEN /\ capResult' = [type |-> type, result |-> modelCapabilitiesCache[key]]
             /\ modelCapabilitiesCache' = modelCapabilitiesCache
        ELSE /\ Cardinality(DOMAIN modelCapabilitiesCache) < MaxCached
             /\ capResult' = [type |-> type, result |-> Evaluate(provider, type)]
             /\ modelCapabilitiesCache' = Put(modelCapabilitiesCache, key, Evaluate(provider, type))
  /\ UNCHANGED <<provider, mcpConfig, geminiConfig, oauthInfo, detectedAgents, agentMcp, mcpOps,
                 bootVars, ctcVars, msgVars, calls, proc, nEvents, toolVars>>

\* clearModelCapabilitiesCache, lines 180-182
clearModelCapabilitiesCache ==
  /\ modelCapabilitiesCache' = EmptyMap
  /\ UNCHANGED <<provider, capResult, mcpConfig, geminiConfig, oauthInfo, detectedAgents,
                 agentMcp, mcpOps, bootVars, ctcVars, msgVars, calls, proc, nEvents, toolVars>>

\* the provider is edited in the settings: its model list, its capability
\* tags or its platform
SetProvider(field, value) ==
  /\ provider' = [provider EXCEPT ![field] = value]
  /\ provider' # provider
  /\ UNCHANGED <<modelCapabilitiesCache, capResult, mcpConfig, geminiConfig, oauthInfo,
                 detectedAgents, agentMcp, mcpOps,
                 bootVars, ctcVars, msgVars, calls, proc, nEvents, toolVars>>

\* the state after construction, for given stored configuration and
\* conversation options
Constructed(mcp, config, oauth, engine, pref) ==
  /\ bootstrap = "resolving"
  /\ status = "idle"
  /\ history = <<>>
  /\ pending = <<>>
  /\ outbound = EmptyBag
  /\ calls = [k \in CallSlots |-> [pc |-> "none", msg_id |-> "m1", input |-> "p"]]
  /\ proc = [k \in CallSlots |-> "idle"]
  /\ nEvents = 0
  /\ toolCalls = [c \in ToolCallIds |-> [status |-> "None", confirmationDetails |-> "none",
                                        resultDisplay |-> "none", outcome |-> "none", turn |-> 0]]
  /\ continuations = {}
  /\ posted = {}
  /\ besideResolve = FALSE
  /\ mcpConfig = mcp
  /\ geminiConfig = config
  /\ oauthInfo = oauth
  /\ detectedAgents = {}
  /\ agentMcp = [a \in Agents |-> {}]
  /\ mcpOps = {}
  /\ provider = DefaultProvider
  /\ modelCapabilitiesCache = EmptyMap
  /\ capResult = [type |-> "none", result |-> "none"]
  /\ startOptions = Null
  /\ session = <<>>
  /\ toolConfig = ConversationToolConfig(engine)
  /\ authType = "unset"
  /\ toolRegistry = {}
  /\ clientTools = {}
  /\ registerCalls = [n |-> 0, last |-> "none"]
  /\ preference = pref

Init == Constructed(DefaultMcpStore, DefaultGeminiConfig, DefaultOauthInfo, "unset", "default")

Next ==
  \/ BootstrapConfigResolved
  \/ BootstrapStarted
  \/ BootstrapInjected
  \/ BootstrapRejected
  \/ \E m \in Sendable(MsgIdSeq, UsedMsgIds), i \in Sendable(InputSeq, UsedInputs) : sendMessage(m, i)
  \/ \E k \in CallSlots : sendMessageForward(k)
  \/ \E k \in CallSlots : sendMessageCatch(k)
  \/ \E k \in CallSlots : nextTickToLocalFinish(k)
  \/ LocalSync
  \/ \E k \in CallSlots, c \in RawConversationIds : SubprocessStart(k, c, FALSE)
  \/ \E k \in CallSlots, c \in RawConversationIds : SubprocessFinish(k, c, FALSE)
  \/ \E k \in CallSlots, d \in StreamData, c \in RawConversationIds :
       SubprocessStream(k, "content", d, c, FALSE)

Spec == Init /\ [][Next]_vars

\* One turn and its tool calls
ToolNext ==
  \/ BootstrapConfigResolved
  \/ BootstrapStarted
  \/ BootstrapInjected
  \/ BootstrapRejected
  \/ calls[1].pc = "none" /\ sendMessage("m1", "p")
  \/ sendMessageForward(1)
  \/ SubprocessStart(1, "none", FALSE)
  \/ SubprocessFinish(1, "none", FALSE)
  \/ \E c \in ToolCallIds, d \in Categories \cup {"none"} : ToolInvoke(1, c, d)
  \/ \E c \in ToolCallIds : ToolAwaitApproval(c)
  \/ \E c \in ToolCallIds, r \in {"Success", "Error"} : ToolExecute(c, r)
  \/ \E c \in ToolCallIds, o \in Outcomes : onConfirm(c, o)
  \/ \E c \in ToolCallIds, o \in {"ProceedOnce", "Cancel"} : confirmMessageRequest(c, o, "m1")
  \/ \E p \in posted, r \in {"Success", "Error"} : SubprocessConfirm(p, r)

ToolSpec == Init /\ [][ToolNext]_vars
\* The bootstrap chain over the stored configurations
BootInit ==
  \/ \E mcp \in McpStores :
       Constructed(mcp, DefaultGeminiConfig, DefaultOauthInfo, "unset", "default")
  \/ \E config \in GeminiConfigs, oauth \in OauthInfos :
       Constructed(DefaultMcpStore, config, oauth, "unset", "default")

BootNext ==
  \/ BootstrapConfigResolved
  \/ BootstrapStarted
  \/ BootstrapInjected
  \/ BootstrapRejected

BootSpec == BootInit /\ [][BootNext]_vars

\* The tool configuration of one conversation: resolved once, then used
Initialized == authType # "unset"

\* the conversation is created with the preference of that moment, or none
CtcInit ==
  \E pref \in SearchEngines : \E engine \in {pref, "unset"} :
    Constructed(DefaultMcpStore, DefaultGeminiConfig, DefaultOauthInfo, engine, pref)

CtcNext ==
  \/ \E a \in AuthTypes : ~Initialized /\ initializeForConversation(a)
  \/ \E aux \in AuxOutcomes : registerCustomTools(aux)
  \/ \E p \in SearchEngines : SetPreference(p)

CtcSpec == CtcInit /\ [][CtcNext]_vars

\* The message pipeline over every event type, for turns that are forwarded
PipeNext ==
  \/ BootstrapConfigResolved
  \/ BootstrapStarted
  \/ BootstrapInjected
  \/ \E m \in Sendable(MsgIdSeq, UsedMsgIds) : sendMessage(m, "p")
  \/ \E k \in CallSlots : sendMessageForward(k)
  \/ LocalSync
  \/ \E k \in CallSlots : SubprocessStart(k, "other", FALSE)
  \/ \E k \in CallSlots : SubprocessFinish(k, "other", FALSE)
  \/ \E k \in CallSlots, t \in StreamTypes, d \in {"x", ""}, c \in RawConversationIds :
       SubprocessStream(k, t, d, c, FALSE)

PipeSpec == Init /\ [][PipeNext]_vars

\* Turns that are forwarded and the writes of their messages to the store
StoreNext ==
  \/ BootstrapConfigResolved
  \/ BootstrapStarted
  \/ BootstrapInjected
  \/ \E m \in Sendable(MsgIdSeq, UsedMsgIds), i \in Sendable(InputSeq, UsedInputs) : sendMessage(m, i)
  \/ \E k \in CallSlots : sendMessageForward(k)
  \/ \E k \in CallSlots : SubprocessStart(k, "other", FALSE)
  \/ \E k \in CallSlots, d \in StreamData : SubprocessStream(k, "content", d, "other", FALSE)
  \/ LocalSync

StoreSpec == Init /\ [][StoreNext]_vars

\* Turns and reloads of the context
ReloadNext ==
  \/ BootstrapConfigResolved
  \/ BootstrapStarted
  \/ BootstrapInjected
  \/ BootstrapRejected
  \/ \E m \in Sendable(MsgIdSeq, UsedMsgIds), i \in Sendable(InputSeq, UsedInputs) : sendMessage(m, i)
  \/ \E k \in CallSlots : sendMessageForward(k)
  \/ \E k \in CallSlots : SubprocessStart(k, "none", FALSE)
  \/ \E k \in CallSlots, d \in StreamData : SubprocessStream(k, "content", d, "none", FALSE)
  \/ \E k \in CallSlots : sendMessageCatch(k)
  \/ \E k \in CallSlots : nextTickToLocalFinish(k)
  \/ LocalSync
  \/ reloadContext

ReloadSpec == Init /\ [][ReloadNext]_vars

\* Turns whose subprocess may terminate before the turn has finished
FailNext ==
  \/ BootstrapConfigResolved
  \/ BootstrapStarted
  \/ BootstrapInjected
  \/ \E m \in Sendable(MsgIdSeq, UsedMsgIds), i \in Sendable(InputSeq, UsedInputs) : sendMessage(m, i)
  \/ \E k \in CallSlots : sendMessageForward(k)
  \/ \E k \in CallSlots : SubprocessStart(k, "none", FALSE)
  \/ \E k \in CallSlots : SubprocessFinish(k, "none", FALSE)
  \/ \E k \in CallSlots : SubprocessStream(k, "content", "x", "none", FALSE)
  \/ \E k \in CallSlots : SubprocessTerminate(k)
  \/ LocalSync

FailSpec == Init /\ [][FailNext]_vars

\* The registry of MCP servers and the external agents
McpInit ==
  Constructed([kind |-> "array", servers |-> <<>>], DefaultGeminiConfig, DefaultOauthInfo,
              "unset", "default")

McpNext ==
  \/ \E agents \in SUBSET Agents \ {{}} : loadAgents(agents)
  \/ \E d \in ServerData : wrappedHandleAddMcpServer(d)
  \/ \E d \in ServerData : wrappedHandleEditMcpServer(d.name, d)
  \/ \E d, e \in ServerData : wrappedHandleBatchImportMcpServers(<<d, e>>)
  \/ \E n \in ServerNames, enabled \in BOOLEAN : handleToggleMcpServer(n, enabled)
  \/ \E n \in ServerNames : handleConfirmDelete(n)
  \/ \E n \in ServerNames : handleTestMcpConnection(n, "connected")
  \/ \E o \in mcpOps : McpOperationRun(o)

McpSpec == McpInit /\ [][McpNext]_vars

\* Turns whose events may be preview-open events
PreviewNext ==
  \/ BootstrapConfigResolved
  \/ BootstrapStarted
  \/ BootstrapInjected
  \/ \E m \in Sendable(MsgIdSeq, UsedMsgIds) : sendMessage(m, "p")
  \/ \E k \in CallSlots : sendMessageForward(k)
  \/ \E k \in CallSlots, preview \in BOOLEAN : SubprocessStart(k, "none", preview)
  \/ \E k \in CallSlots, preview \in BOOLEAN : SubprocessFinish(k, "none", preview)
  \/ \E k \in CallSlots, preview \in BOOLEAN : SubprocessStream(k, "content", "x", "none", preview)
  \/ LocalSync

PreviewSpec == Init /\ [][PreviewNext]_vars

\* One turn with tool calls whose confirmations all come from the rendered
\* buttons; "null" is the selection before any option was chosen
UiNext ==
  \/ BootstrapConfigResolved
  \/ BootstrapStarted
  \/ BootstrapInjected
  \/ calls[1].pc = "none" /\ sendMessage("m1", "p")
  \/ sendMessageForward(1)
  \/ SubprocessStart(1, "none", FALSE)
  \/ \E c \in ToolCallIds, d \in Categories \cup {"none"} : ToolInvoke(1, c, d)
  \/ \E c \in ToolCallIds : ToolAwaitApproval(c)
  \/ \E c \in ToolCallIds, r \in {"Success", "Error"} : ToolExecute(c, r)
  \/ \E c \in ToolCallIds, o \in Outcomes \cup {"null"} : onConfirm(c, o)
  \/ \E p \in posted, r \in {"Success", "Error"} : SubprocessConfirm(p, r)

UiSpec == Init /\ [][UiNext]_vars

\* Lookups of model capabilities between edits of the provider
CapNext ==
  \/ \E type \in ModelTypes : hasModelCapability(type)
  \/ clearModelCapabilitiesCache
  \/ \E l \in ModelLists : SetProvider("model", l)
  \/ \E c \in CapabilityLists : SetProvider("capabilities", c)
  \/ \E pl \in Platforms : SetProvider("platform", pl)

CapSpec == Init /\ [][CapNext]_vars

\* =============================================================== claims
TagOf(m) == IF m.position = "right" THEN m.id ELSE m.msg_id
Sent(k) == calls[k].pc # "none"
SendStep(k) == calls[k].pc = "none" /\ calls'[k].pc = "awaiting"
ErrorEvent(m) == [type |-> "error", msg_id |-> m, conversation_id |-> ConversationId]
ErrorId(m) == "error-" \o m

\* C1: the user message of a sendMessage call is in the history (and the
\* status was set to pending) from the moment of the call, hence before the
\* call is forwarded and before any event tagged with its msg_id exists; the
\* stored user message precedes every stored reply of its turn.
C1_Recorded ==
  /\ \A k \in CallSlots : Sent(k) => HasId(history, calls[k].msg_id)
  /\ \A e \in BagToSet(outbound) : HasId(history, e.msg_id)
  /\ \A i, j \in 1..Len(history) :
       (history[j].position # "right" /\ history[i].id = TagOf(history[j])) => i < j

C1_PersistBeforeForward ==
  /\ []C1_Recorded
  /\ [][\A k \in CallSlots : SendStep(k) =>
          (status' = "pending" /\ HasId(history', calls'[k].msg_id))]_vars

C1_Witness ==
  \E k \in CallSlots, i, j \in 1..Len(history) :
    /\ proc[k] = "started"
    /\ history[i].id = calls[k].msg_id /\ history[i].position = "right"
    /\ history[j].position = "left" /\ TagOf(history[j]) = calls[k].msg_id

\* C2: a call is forwarded to the subprocess only once the bootstrap chain
\* has resolved, also when several calls wait on it at once.
C2_ForwardAfterBootstrap ==
  \A k \in CallSlots : (calls[k].pc = "forwarded" \/ proc[k] # "idle") => bootstrap = "resolved"

C2_Witness ==
  /\ bootstrap = "injecting"
  /\ \E k, j \in CallSlots : k # j /\ calls[k].pc = "awaiting" /\ calls[j].pc = "awaiting"

\* C3: with bootstrap failed, the error events tagged m on the bridge are
\* exactly one per call with msg_id m whose catch handler has run.
C3_OneErrorPerCall ==
  bootstrap = "rejected" =>
    /\ \A m \in MsgIds :
         CopiesIn(ErrorEvent(m), outbound) =
           Cardinality({k \in CallSlots : calls[k].msg_id = m /\ calls[k].pc \in {"syncing", "rejected"}})
    /\ \A e \in BagToSet(outbound) : e.type = "error"

C3_Witness ==
  \E k, j \in CallSlots :
    /\ calls[k].pc = "rejected" /\ calls[j].pc = "rejected"
    /\ calls[k].msg_id # calls[j].msg_id
    /\ CopiesIn(ErrorEvent(calls[k].msg_id), outbound) = 1
    /\ CopiesIn(ErrorEvent(calls[j].msg_id), outbound) = 1

\* C4: a call is rejected only when its error event is on the bridge and the
\* error message it produced is in the stored history.
C4_RejectAfterSync ==
  \A k \in CallSlots : calls[k].pc = "rejected" =>
    /\ CopiesIn(ErrorEvent(calls[k].msg_id), outbound) >= 1
    /\ HasId(history, ErrorId(calls[k].msg_id))
    /\ history[IndexOf(history, ErrorId(calls[k].msg_id))].content = "boot-failed"

C4_Witness ==
  \E k \in CallSlots : calls[k].pc = "rejected" /\ HasId(history, ErrorId(calls[k].msg_id))

\* C5: a continuation leaves the table only in a step that consumes a
\* confirmMessage request naming its callId, and that step leaves every
\* other pending call as it was.
C5_ResolvesOnlyItsCall ==
  [][\A c \in continuations : c \notin continuations' =>
       /\ \E p \in posted \ posted' : p.request.callId = c
       /\ \A d \in continuations \ {c} :
            d \in continuations' /\ toolCalls'[d] = toolCalls[d]]_vars

C5_Witness ==
  /\ besideResolve
  /\ \E c, d \in ToolCallIds :
       /\ c # d
       /\ toolCalls[c].outcome # "none" /\ ~isLoading(toolCalls[c].status)
       /\ toolCalls[d].status = "Confirming" /\ d \in continuations

\* C6: a call resolved with Cancel is Canceled and has no resultDisplay, in
\* every category; a call resolved with another outcome is Success or Error;
\* the outcome a call is resolved with is the confirmKey of the request.
C6_Outcome ==
  \A c \in ToolCallIds :
    /\ toolCalls[c].outcome = "Cancel" =>
         toolCalls[c].status = "Canceled" /\ toolCalls[c].resultDisplay = "none"
    /\ toolCalls[c].outcome \notin {"none", "Cancel"} => toolCalls[c].status \in {"Success", "Error"}
    /\ toolCalls[c].status = "Canceled" => toolCalls[c].outcome = "Cancel"

C6_CancelEndsCanceled ==
  /\ []C6_Outcome
  /\ [][\A c \in continuations : c \notin continuations' =>
          \E p \in posted \ posted' :
            p.request.callId = c /\ toolCalls'[c].outcome = p.request.confirmKey]_vars

C6_Witness ==
  \E c, d \in ToolCallIds :
    /\ toolCalls[c].status = "Canceled" /\ toolCalls[c].resultDisplay = "none"
    /\ toolCalls[c].confirmationDetails = "edit"
    /\ toolCalls[d].status = "Canceled" /\ toolCalls[d].resultDisplay = "none"
    /\ toolCalls[d].confirmationDetails = "mcp"

\* C7: a call's status only moves forward along Invoked -> Confirming ->
\* {Success, Error, Canceled} (a call without approval goes from Invoked to
\* Success or Error), and a status the UI shows as finished never changes.
ToolTransitions ==
  {<<"None", "Invoked">>, <<"Invoked", "Confirming">>,
   <<"Invoked", "Success">>, <<"Invoked", "Error">>,
   <<"Confirming", "Success">>, <<"Confirming", "Error">>, <<"Confirming", "Canceled">>}

C8_ConfirmingOnlyIfFlagged ==
  \A c \in ToolCallIds :
    /\ (toolCalls[c].status = "Confirming" \/ c \in continuations) =>
         toolCalls[c].confirmationDetails # "none"
    /\ toolCalls[c].confirmationDetails = "none" =>
         /\ toolCalls[c].outcome = "none"
         /\ toolCalls[c].status \in {"None", "Invoked", "Success", "Error"}

C8_Witness ==
  \E c, d \in ToolCallIds :
    /\ toolCalls[c].confirmationDetails = "none" /\ toolCalls[c].status \in {"Success", "Error"}
    /\ toolCalls[d].status = "Confirming"

\* C9 as stated: running is entered only from pending, finished only from
\* running.
C9_StatusChain ==
  [][/\ (status' = "running" /\ status # "running") => status = "pending"
     /\ (status' = "finished" /\ status # "finished") => status = "running"]_vars

\* C9 amended: the status is idle until the first sendMessage and then one of
\* pending, running, finished; every sendMessage sets it to pending, every
\* start event to running and every finish event to finished, whatever it
\* was before, and nothing else changes it.
StartStep == \E k \in CallSlots : proc[k] = "queued" /\ proc'[k] = "started"
FinishStep == \E k \in CallSlots : proc[k] = "started" /\ proc'[k] = "finished"
AnySendStep == \E k \in CallSlots : SendStep(k)

C9_StatusFollowsLastEvent ==
  /\ [](status \in {"idle", "pending", "running", "finished"})
  /\ [][/\ AnySendStep => status' = "pending"
        /\ StartStep => status' = "running"
        /\ FinishStep => status' = "finished"
        /\ ~(AnySendStep \/ StartStep \/ FinishStep) => status' = status]_vars

C9_Witness ==
  /\ status = "running"
  /\ \E k, j \in CallSlots : proc[k] = "finished" /\ proc[j] = "started"

\* C10: the stored history never holds two records with one id; a write of
\* an id that is already stored replaces that record where it is, so after
\* the write the one record of that id carries the written content.
UniqueIds(h) == \A i, j \in 1..Len(h) : h[i].id = h[j].id => i = j
SyncStep == pending # <<>> /\ pending' = Tail(pending) /\ calls' = calls

C10_UpsertById ==
  /\ [](UniqueIds(history))
  /\ [][SyncStep =>
          /\ CountId(history', Head(pending).id) = 1
          /\ history'[IndexOf(history', Head(pending).id)] = Head(pending)
          /\ Len(history') = IF HasId(history, Head(pending).id)
                             THEN Len(history) ELSE Len(history) + 1]_vars
  /\ [][\A k \in CallSlots : SendStep(k) =>
          /\ CountId(history', calls'[k].msg_id) = 1
          /\ history'[IndexOf(history', calls'[k].msg_id)].content = calls'[k].input]_vars

C10_Witness ==
  \E k, j \in CallSlots :
    /\ k < j /\ Sent(k) /\ Sent(j)
    /\ calls[k].msg_id = calls[j].msg_id /\ calls[k].input # calls[j].input
    /\ CountId(history, calls[j].msg_id) = 1
    /\ history[IndexOf(history, calls[j].msg_id)].content = calls[j].input
    /\ \E i \in 1..Len(history) : history[i].id = "content-" \o calls[j].msg_id /\ history[i].content = "y"

\* C11: messages with new ids are stored in the order their events arrive,
\* and an update of a stored id never moves a stored message: the ids of the
\* history, on disk and once the buffered writes have settled, only ever
\* grow at the end, by at most one id per step, and that id is a new one.
Settled == FlushAll(history, pending)
Ids(h) == [i \in 1..Len(h) |-> h[i].id]
IsPrefix(a, b) == Len(a) <= Len(b) /\ a = SubSeq(b, 1, Len(a))

C11_ArrivalOrder ==
  /\ [](IsPrefix(Ids(history), Ids(Settled)))
  /\ [][(history' # history \/ pending' # pending) =>
          \E old \in {Ids(Settled)} : \E new \in {Ids(Settled')} :
            /\ IsPrefix(Ids(history), Ids(history'))
            /\ IsPrefix(old, new)
            /\ Len(new) <= Len(old) + 1
            /\ Len(new) = Len(old) + 1 =>
                 \A i \in 1..Len(old) : old[i] # new[Len(new)]]_vars

\* the user message was updated in place by a second call with the same
\* msg_id while the streamed reply of the turn is stored behind it
C11_Witness ==
  /\ Len(history) = 2
  /\ history[1].id = "m1" /\ history[1].content = "q"
  /\ history[2].id = "content-m1" /\ history[2].content = "y"
  /\ pending = <<>>

\* C12: every persisted message, stored or still buffered, and every event
\* forwarded to the outbound bridge carries the manager's conversation_id,
\* whatever conversation_id the raw subprocess event carried.
C12_OwnConversationId ==
  /\ \A i \in 1..Len(history) : history[i].conversation_id = ConversationId
  /\ \A i \in 1..Len(pending) : pending[i].conversation_id = ConversationId
  /\ \A e \in BagToSet(outbound) : e.conversation_id = ConversationId

\* a streamed reply (raw events never carry the manager's id) is stored
\* behind the user message, and its event and a start event were forwarded
C12_Witness ==
  /\ ConversationId \notin RawConversationIds
  /\ \E i \in 1..Len(history) : history[i].position = "right"
  /\ \E i \in 1..Len(history) : history[i].type = "content"
  /\ \E e \in BagToSet(outbound) : e.type = "content"
  /\ \E e \in BagToSet(outbound) : e.type = "start"

\* C13: an event of a transient type (thought, finished) is forwarded to the
\* outbound bridge and adds or changes no persisted record: every streamed
\* event puts exactly one event on the bridge, and when that event is
\* transient neither the history nor the buffered writes change; no stored
\* or buffered record ever has a transient type.
TransientTypes == {"thought", "finished"}
StreamStep == nEvents' = nEvents + 1

C13_TransientForwardedOnly ==
  /\ [](/\ \A i \in 1..Len(history) : history[i].type \notin TransientTypes
        /\ \A i \in 1..Len(pending) : pending[i].type \notin TransientTypes)
  /\ [][StreamStep =>
          \E e \in BagToSet(outbound') :
            /\ outbound' = outbound (+) SetToBag({e})
            /\ e.type \in TransientTypes => (pending' = pending /\ history' = history)]_vars

\* a thought and a finished event of the first turn were forwarded and the
\* user message is the turn's only record
C13_Witness ==
  /\ \E e \in BagToSet(outbound) : e.type = "thought" /\ e.msg_id = "m1"
  /\ \E e \in BagToSet(outbound) : e.type = "finished" /\ e.msg_id = "m1"
  /\ nEvents = 2
  /\ Len(history) = 1 /\ history[1].id = "m1"
  /\ pending = <<>>

\* C14: the MCP map handed to start has an entry under a name exactly when
\* some stored server of that name is enabled, has status connected and uses
\* the stdio transport, and the entry carries that server's command; servers
\* with an sse, http or streamable_http transport, disabled servers and
\* servers that are testing, disconnected or in error are never projected.
\* Of {enabled, connected, stdio}, {enabled, connected, http} and {disabled,
\* connected, stdio} only the first is passed.
Started == startOptions # Null
Projectable(server) ==
  server.enabled /\ server.status = "connected" /\ server.transport.type = "stdio"
StoredServers ==
  IF mcpConfig.kind = "array"
  THEN {mcpConfig.servers[i] : i \in 1..Len(mcpConfig.servers)}
  ELSE {}

C14_McpProjection ==
  Started =>
    /\ DOMAIN startOptions.mcpServers = {server.name : server \in {x \in StoredServers : Projectable(x)}}
    /\ \A n \in DOMAIN startOptions.mcpServers :
         \E server \in StoredServers :
           /\ Projectable(server)
           /\ server.name = n
           /\ startOptions.mcpServers[n].command = server.transport.command
    /\ mcpConfig = DefaultMcpStore => DOMAIN startOptions.mcpServers = {"a"}

\* start was called for a store of two enabled, connected servers, one on
\* sse and one on stdio, and only the stdio one is in the map
C14_Witness ==
  /\ Started
  /\ mcpConfig = [kind |-> "array",
                  servers |-> <<Server("a", TRUE, "connected", "sse"),
                                Server("b", TRUE, "connected", "stdio")>>]
  /\ DOMAIN startOptions.mcpServers = {"b"}
  /\ startOptions.mcpServers["b"].command = "run-b"

\* C15: once the tool configuration is resolved, getConfig answers with the
\* same exclude-tool list and the same two flags after every later step:
\* further getConfig and registerCustomTools calls and edits of the global
\* search-engine preference.
Answer ==
  LET c == getConfig(toolConfig)
  IN [excludeTools |-> c.excludeTools,
      useAionuiWebFetch |-> c.useAionuiWebFetch,
      useGeminiWebSearch |-> c.useGeminiWebSearch]

C15_AnswerFixed == [][Initialized => Answer' = Answer]_vars

\* a conversation created under the preference google has registered its
\* tools and the preference is default by now
C15_Witness ==
  /\ Initialized
  /\ toolConfig.webSearchEngine = "google"
  /\ preference = "default"
  /\ registerCalls.n >= 2
  /\ Answer.useGeminiWebSearch
  /\ Answer.excludeTools = <<"web_fetch", "google_web_search">>

\* C16: the GOOGLE_CLOUD_PROJECT passed to start is the project stored in
\* accountProjects under the signed-in account's email, and is unset when
\* the account lookup fails, yields no account or no email, or the email has
\* no mapping; the global GOOGLE_CLOUD_PROJECT of the stored configuration
\* is never passed through.
AccountProject ==
  IF /\ oauthInfo.kind = "info"
     /\ geminiConfig.kind = "config"
     /\ geminiConfig.hasAccountProjects
     /\ oauthInfo.email \in DOMAIN geminiConfig.accountProjects
  THEN geminiConfig.accountProjects[oauthInfo.email]
  ELSE "unset"

C16_ProjectOfAccount ==
  Started =>
    /\ startOptions.GOOGLE_CLOUD_PROJECT = AccountProject
    /\ startOptions.GOOGLE_CLOUD_PROJECT # "stale"

\* start was called with no project although the stored configuration has a
\* global project and a mapping for another account, the lookup having failed
C16_Witness ==
  /\ Started
  /\ geminiConfig.kind = "config"
  /\ geminiConfig.GOOGLE_CLOUD_PROJECT = "stale"
  /\ DOMAIN geminiConfig.accountProjects = {"bob"}
  /\ oauthInfo.kind = "throws"
  /\ startOptions.GOOGLE_CLOUD_PROJECT = "unset"

\* C17: after initializeForConversation, whatever the auth type and the
\* search-engine preference, useAionuiWebFetch is true and 'web_fetch' is in
\* the exclusion list.
Excluded(tool) ==
  \E i \in 1..Len(toolConfig.excludeTools) : toolConfig.excludeTools[i] = tool

C17_FetchAlwaysReplaced ==
  Initialized => (getConfig(toolConfig).useAionuiWebFetch /\ Excluded("web_fetch"))

\* resolved for a Vertex AI conversation with the default engine: the
\* built-in fetch tool is the only exclusion
C17_Witness ==
  /\ authType = "USE_VERTEX_AI"
  /\ toolConfig.webSearchEngine = "default"
  /\ toolConfig.useAionuiWebFetch
  /\ toolConfig.excludeTools = <<"web_fetch">>

\* C18: after initializeForConversation, useGeminiWebSearch is true and
\* 'google_web_search' is excluded exactly when the conversation's
\* search-engine preference is 'google' and the auth type is USE_OPENAI; in
\* every other combination the flag is false and the built-in tool is not
\* excluded.
GoogleForOpenAI == toolConfig.webSearchEngine = "google" /\ authType = "USE_OPENAI"

C18_SearchOnlyGoogleOpenAI ==
  Initialized =>
    /\ getConfig(toolConfig).useGeminiWebSearch <=> GoogleForOpenAI
    /\ Excluded("google_web_search") <=> GoogleForOpenAI

\* resolved for an OpenAI conversation created under the preference google
C18_Witness ==
  /\ authType = "USE_OPENAI"
  /\ toolConfig.webSearchEngine = "google"
  /\ toolConfig.useGeminiWebSearch
  /\ toolConfig.excludeTools = <<"web_fetch", "google_web_search">>

\* C19: when a registerCustomTools call fails to initialize or authenticate
\* the auxiliary web-search client, the fetch tool is registered all the
\* same, the registry is synchronized to the model client, and the call
\* itself resolves.
RegisterStep == registerCalls'.n = registerCalls.n + 1
AuxFailedStep ==
  /\ RegisterStep
  /\ toolConfig.dedicatedConfig = "null"
  /\ toolConfig'.dedicatedConfig # "null"
  /\ toolConfig'.dedicatedGeminiClient = "null"

C19_AuxFailureIsolated ==
  [][AuxFailedStep =>
       /\ "aionui_web_fetch" \in toolRegistry'
       /\ clientTools' = toolRegistry'
       /\ registerCalls'.last = "resolved"]_vars

\* the first registerCustomTools call of a conversation with the search tool
\* enabled resolved with the auxiliary client missing and the fetch tool
\* registered and synchronized
C19_Witness ==
  /\ toolConfig.useGeminiWebSearch
  /\ registerCalls = [n |-> 1, last |-> "resolved"]
  /\ toolConfig.dedicatedConfig = createDedicatedGeminiConfig(1)
  /\ toolConfig.dedicatedGeminiClient = "null"
  /\ toolRegistry = {"aionui_web_fetch"}
  /\ clientTools = {"aionui_web_fetch"}

\* C20: reloadContext is idempotent: injecting again gives what one
\* injection gives, so after any number of reloads the session holds the ids
\* of persisted messages in stored order, none of them twice, and a step
\* that changes the injected history leaves exactly the persisted history
\* in the session.
NoRepeat(q) == \A i, j \in 1..Len(q) : q[i] = q[j] => i = j

BootstrapTransitions ==
  {<<"resolving", "starting">>, <<"starting", "injecting">>, <<"injecting", "resolved">>,
   <<"resolving", "rejected">>, <<"starting", "rejected">>, <<"injecting", "rejected">>}

C21_BootstrapOnce ==
  /\ [](Started => bootstrap # "resolving")
  /\ [][/\ bootstrap' # bootstrap => <<bootstrap, bootstrap'>> \in BootstrapTransitions
        /\ startOptions' # startOptions =>
             (startOptions = Null /\ bootstrap = "resolving" /\ bootstrap' = "starting")]_vars

\* start was invoked and the chain failed; two sendMessage calls were
\* rejected and a reloadContext ran, and the chain is still rejected
C21_Witness ==
  /\ bootstrap = "rejected"
  /\ Started
  /\ \A k \in {1, 2} : calls[k].pc = "rejected"
  /\ session # <<>>

Vocabulary ==
  [category \in Categories |->
     IF category = "mcp"
     THEN {"ProceedOnce", "ProceedAlwaysTool", "ProceedAlwaysServer", "Cancel"}
     ELSE {"ProceedOnce", "ProceedAlways", "Cancel"}]

Offered(c) == useConfirmationButtons(toolCalls[c].confirmationDetails)

C23_OfferedVocabulary ==
  \A c \in ToolCallIds :
    toolCalls[c].status = "Confirming" =>
      /\ toolCalls[c].confirmationDetails \in Categories
      /\ Offered(c) = Vocabulary[toolCalls[c].confirmationDetails]
      /\ "Cancel" \in Offered(c)
      /\ toolCalls[c].confirmationDetails # "mcp" =>
           Offered(c) \cap {"ProceedAlwaysTool", "ProceedAlwaysServer"} = {}

\* an info call and an mcp call are Confirming at once
C23_Witness ==
  \E c, d \in ToolCallIds :
    /\ toolCalls[c].status = "Confirming" /\ toolCalls[c].confirmationDetails = "info"
    /\ toolCalls[d].status = "Confirming" /\ toolCalls[d].confirmationDetails = "mcp"
    /\ "ProceedAlwaysServer" \in Offered(d) \ Offered(c)

\* C24: no timeout acts on a pending confirmation: while no confirmMessage
\* request naming a Confirming call is in flight, every step leaves the call
\* Confirming and its continuation in the table; a call leaves Confirming
\* only in a step that takes a request naming its callId.
Requested(c) == \E p \in posted : p.request.callId = c

C24_NoTimeout ==
  [][\A c \in ToolCallIds :
       toolCalls[c].status = "Confirming" =>
         /\ ~Requested(c) => (toolCalls'[c].status = "Confirming" /\ c \in continuations')
         /\ toolCalls'[c].status # "Confirming" =>
              \E p \in posted \ posted' : p.request.callId = c]_vars

\* the turn has finished and nothing is in flight, and a call of it is still
\* Confirming with its continuation pending
C24_Witness ==
  \E c \in ToolCallIds :
    /\ toolCalls[c].status = "Confirming" /\ c \in continuations
    /\ posted = {}
    /\ proc[1] = "finished"
    /\ status = "finished"

\* C25: a call suspended in Confirming or ended in Error neither blocks nor
\* fails the other calls of the turn and never puts the conversation in an
\* error status: whatever the other calls' states, an Invoked call can take
\* its next step, a Confirming call can be confirmed from the UI and a
\* posted confirmation can be taken; a step of one call changes no other.
CanAdvance(d) ==
  /\ (toolCalls[d].status = "Invoked" /\ toolCalls[d].confirmationDetails = "none") =>
       ENABLED ToolExecute(d, "Success")
  /\ (toolCalls[d].status = "Invoked" /\ toolCalls[d].confirmationDetails # "none") =>
       ENABLED ToolAwaitApproval(d)
  /\ (toolCalls[d].status = "Confirming" /\ Cardinality(posted) < MaxPosted) =>
       ENABLED onConfirm(d, "Cancel")
  /\ \A p \in posted : p.key = d => ENABLED SubprocessConfirm(p, "Success")

C25_CallsIndependent ==
  /\ [](status # "error" /\ \A d \in ToolCallIds : CanAdvance(d))
  /\ [][\A c, d \in ToolCallIds :
          (c # d /\ toolCalls'[c] # toolCalls[c]) => toolCalls'[d] = toolCalls[d]]_vars

\* one call ended in Error and one is suspended in Confirming while the
\* conversation is running
C25_Witness ==
  \E c, d \in ToolCallIds :
    /\ toolCalls[c].status = "Error"
    /\ toolCalls[d].status = "Confirming" /\ d \in continuations
    /\ status = "running"
    /\ posted = {}

\* C26: when the subprocess of a turn terminates unexpectedly, the
\* conversation status is set to error, and the manager neither starts the
\* subprocess again nor forwards the turn's message again.
TerminateStep(k) == proc[k] # "terminated" /\ proc'[k] = "terminated"

C26_TransportFailureSetsError ==
  [][\A k \in CallSlots :
       /\ TerminateStep(k) => status' = "error"
       /\ proc[k] = "terminated" =>
            /\ proc'[k] = "terminated"
            /\ calls'[k].pc = calls[k].pc
            /\ startOptions' = startOptions]_vars

\* C27: a step that adds, imports or edits a server as enabled, or enables
\* it, puts a synchronization of that server in flight, and a step that
\* disables or deletes a server puts its removal in flight; when such a call
\* runs it installs the server in, or removes it from, every external agent
\* detected at that moment.
SameButStatus(x, y) == [x EXCEPT !.status = "unset"] = [y EXCEPT !.status = "unset"]
InFlight(op, n) == [op |-> op, name |-> n] \in mcpOps

C28_TableTracksConfirming ==
  \A c \in ToolCallIds : c \in continuations <=> toolCalls[c].status = "Confirming"

\* one call was confirmed and has left the table, the other is still
\* Confirming and in it
C28_Witness ==
  \E c, d \in ToolCallIds :
    /\ toolCalls[c].status \in {"Success", "Canceled"} /\ toolCalls[c].outcome # "none"
    /\ c \notin continuations
    /\ toolCalls[d].status = "Confirming" /\ d \in continuations

\* C29: the injection triggered by the bootstrap chain runs only after
\* start has succeeded and is the chain's last stage: a step of the chain
\* changes the live session only when it completes the chain from the
\* injecting stage, which is entered only with start called and succeeded;
\* the chain is resolved only by the step that finishes the injection; a
\* chain that fails injects nothing and never moves again.
ChainStep == bootstrap' # bootstrap

C29_InjectionAfterStart ==
  /\ [](bootstrap \in {"injecting", "resolved"} => Started)
  /\ [][ChainStep =>
          /\ session' # session => (bootstrap = "injecting" /\ bootstrap' = "resolved")
          /\ bootstrap' = "injecting" => bootstrap = "starting"
          /\ bootstrap' = "resolved" =>
               (bootstrap = "injecting" /\ session' = injectHistoryFromDatabase(session, history))
          /\ bootstrap' = "rejected" => session' = session
          /\ bootstrap # "rejected"]_vars

\* the chain has resolved with a message sent before its injection in the
\* live session
C29_Witness ==
  /\ bootstrap = "resolved"
  /\ Started
  /\ session = <<"m1">>
  /\ session = Ids(history)
  /\ calls[1].pc = "awaiting"

\* C30: every event the listener takes is forwarded; an event of a
\* persistable type whose transform gives no message (a start or finish
\* event, an event without content) leaves the store as it was, and one
\* whose transform gives a message hands exactly that message to the store.
Transformed(e, d) ==
  transformMessage([type |-> e.type, data |-> d, msg_id |-> e.msg_id,
                    conversation_id |-> e.conversation_id])

C31_AuxClientOnce ==
  /\ [](registerCalls.n = 0 =>
          (toolConfig.dedicatedConfig = "null" /\ toolConfig.dedicatedGeminiClient = "null"))
  /\ [][/\ toolConfig'.dedicatedConfig # toolConfig.dedicatedConfig =>
             /\ toolConfig.dedicatedConfig = "null"
             /\ RegisterStep
             /\ toolConfig.useGeminiWebSearch
        /\ toolConfig'.dedicatedGeminiClient # toolConfig.dedicatedGeminiClient =>
             /\ toolConfig.dedicatedConfig = "null"
             /\ toolConfig.dedicatedGeminiClient = "null"
             /\ toolConfig'.dedicatedConfig # "null"
        /\ (RegisterStep /\ toolConfig.dedicatedGeminiClient # "null") =>
             "gemini_web_search" \in toolRegistry']_vars

\* three registrations were made and the config and client built by the
\* first are still the ones in use
C31_Witness ==
  /\ registerCalls.n = 3
  /\ toolConfig.dedicatedConfig = createDedicatedGeminiConfig(1)
  /\ toolConfig.dedicatedGeminiClient = getGeminiClient(1)
  /\ "gemini_web_search" \in clientTools

\* C36: once the initialization or authentication of the auxiliary client
\* has failed, leaving the dedicated config without a client, the custom
\* search tool is registered neither in that call nor in any later one, the
\* client stays missing and the built-in google_web_search stays excluded;
\* the custom search tool is in the registry only if config and client
\* both exist.
Excludes(tool) == \E i \in 1..Len(toolConfig.excludeTools) : toolConfig.excludeTools[i] = tool
AuxFailed == toolConfig.dedicatedConfig # "null" /\ toolConfig.dedicatedGeminiClient = "null"

C36_AuxFailureNotRetried ==
  /\ [](AuxFailed => ("gemini_web_search" \notin toolRegistry /\ Excludes("google_web_search")))
  /\ []("gemini_web_search" \in toolRegistry =>
          (toolConfig.dedicatedConfig # "null" /\ toolConfig.dedicatedGeminiClient # "null"))
  /\ [][AuxFailed => AuxFailed']_vars

\* the client failed in the first registration; two more registrations
\* whose initialization would have succeeded left the search tool out
C36_Witness ==
  /\ registerCalls.n = 3
  /\ toolConfig.dedicatedConfig = createDedicatedGeminiConfig(1)
  /\ toolConfig.dedicatedGeminiClient = "null"
  /\ toolRegistry = {"aionui_web_fetch"}
  /\ clientTools = {"aionui_web_fetch"}
  /\ Excludes("google_web_search")

\* C32: once the bootstrap chain has failed it stays failed, and no
\* sendMessage call is ever forwarded to the subprocess: each call has its
\* user message persisted and leaves the status at pending, can only go
\* on through the failure handler, has exactly one error event with its own
\* msg_id on the bridge once the handler has run, and has the error message
\* persisted when it is rejected.
C32_BootstrapFailurePermanent ==
  /\ [](bootstrap = "rejected" =>
          \A k \in CallSlots :
            /\ calls[k].pc # "forwarded" /\ proc[k] = "idle"
            /\ Sent(k) => (HasId(history, calls[k].msg_id) /\ status = "pending")
            /\ calls[k].pc = "awaiting" =>
                 (ENABLED sendMessageCatch(k) /\ ~ENABLED sendMessageForward(k))
            /\ calls[k].pc \in {"syncing", "rejected"} =>
                 CopiesIn(ErrorEvent(calls[k].msg_id), outbound) >= 1
            /\ calls[k].pc = "rejected" => HasId(history, ErrorId(calls[k].msg_id)))
  /\ [][bootstrap = "rejected" =>
          /\ bootstrap' = "rejected"
          /\ \A k \in CallSlots :
               (calls[k].pc = "awaiting" /\ calls'[k].pc # "awaiting") =>
                 /\ calls'[k].pc = "syncing"
                 /\ outbound' = outbound (+) SetToBag({ErrorEvent(calls[k].msg_id)})
                 /\ status' = status]_vars

\* the second call was made after the first had been rejected, and was
\* rejected in its turn with an error event of its own
C32_Witness ==
  /\ bootstrap = "rejected"
  /\ calls[1].pc = "rejected" /\ calls[2].pc = "rejected"
  /\ calls[1].msg_id # calls[2].msg_id
  /\ Len(history) = 4
  /\ history[2].id = ErrorId(calls[1].msg_id)
  /\ history[3].id = calls[2].msg_id
  /\ status = "pending"
  /\ proc = [k \in CallSlots |-> "idle"]

\* C33: a failed MCP projection does not fail the bootstrap chain: whether
\* the read of the stored servers throws, gives nothing or gives a value
\* that is not a list, the chain can go on to start, and start is then
\* called with the empty map.
ProjectionFailed == mcpConfig.kind \in {"throws", "unset", "object"}

C33_McpFailureTolerated ==
  /\ [](bootstrap = "resolving" => ENABLED BootstrapConfigResolved)
  /\ []((Started /\ ProjectionFailed) => startOptions.mcpServers = EmptyMap)
  /\ [][(ProjectionFailed /\ bootstrap = "resolving" /\ bootstrap' = "starting") =>
          (startOptions' # Null /\ DOMAIN startOptions'.mcpServers = {})]_vars

\* the read of the servers threw and the chain resolved with start called
\* on the empty map
C33_Witness ==
  /\ mcpConfig.kind = "throws"
  /\ bootstrap = "resolved"
  /\ Started
  /\ startOptions.mcpServers = EmptyMap
  /\ startOptions.GOOGLE_CLOUD_PROJECT = "pa"

\* C34: reloadContext does not wait for the bootstrap chain: it can run in
\* every stage of the chain, resolving, starting, injecting, resolved or
\* rejected, and a step that injects without moving the chain leaves the
\* persisted history in the session whatever the stage.
ReloadStep == session' # session /\ bootstrap' = bootstrap

C34_ReloadIgnoresBootstrap ==
  /\ [](ENABLED reloadContext)
  /\ [][ReloadStep => session' = injectHistoryFromDatabase(session, history)]_vars

\* a reload has injected the first user message while the chain has not
\* yet called start
C34_Witness ==
  /\ bootstrap = "resolving"
  /\ ~Started
  /\ session = <<"m1">>
  /\ session = Ids(history)

\* C35: an event recognised as a preview-open event is neither handed to
\* the store nor forwarded to the bridge, and the status its type implies
\* is applied all the same: running for start, finished for finish, no
\* change for any other type.
Dropped == outbound' = outbound /\ pending' = pending /\ history' = history

C35_PreviewDroppedAfterStatus ==
  [][\A k \in CallSlots :
       /\ SubprocessStart(k, "none", TRUE) => (status' = "running" /\ Dropped)
       /\ SubprocessFinish(k, "none", TRUE) => (status' = "finished" /\ Dropped)
       /\ SubprocessStream(k, "content", "x", "none", TRUE) => (status' = status /\ Dropped)]_vars

\* the start and finish events of the first turn were preview-open events:
\* the status followed them and nothing reached the bridge or the store
C35_Witness ==
  /\ proc[1] = "finished"
  /\ status = "finished"
  /\ outbound = EmptyBag
  /\ Len(history) = 1 /\ pending = <<>>
  /\ nEvents = 1

\* C37: every confirmMessage the UI issues is for a call that is
\* Confirming at that moment, with an outcome selected, and carries that
\* call's own callId, the id of its message and an outcome among the
\* options offered for the category of the call.
C37_ConfirmOnlyWhileConfirming ==
  [][\A p \in posted' \ posted :
       /\ p.request.callId \in ToolCallIds
       /\ toolCalls[p.request.callId].status = "Confirming"
       /\ p.request.confirmKey # "null"
       /\ p.request.confirmKey \in Vocabulary[toolCalls[p.request.callId].confirmationDetails]
       /\ p.request.msg_id = calls[toolCalls[p.request.callId].turn].msg_id
       /\ p.key = p.request.callId /\ p.value = p.request.confirmKey]_vars

\* an mcp call was confirmed with an outcome only mcp offers and has
\* finished, the request of a second Confirming call is in flight
C37_Witness ==
  \E c, d \in ToolCallIds :
    /\ toolCalls[c].confirmationDetails = "mcp"
    /\ toolCalls[c].outcome = "ProceedAlwaysServer"
    /\ toolCalls[c].status = "Success"
    /\ toolCalls[d].status = "Confirming"
    /\ \E p \in posted : p.request.callId = d /\ p.request.confirmKey = "Cancel"

\* C38: the capability cache is transparent: whatever lookups, edits of
\* the provider (its model list included) and cache clearings came before,
\* every hasModelCapability call returns what an evaluation of the
\* provider's current data without the cache gives.
C38_CacheTransparent ==
  [][\A type \in ModelTypes :
       hasModelCapability(type) => capResult'.result = Evaluate(provider, type)]_vars

\* some model name of the provider matches the pattern of the type and no
\* exclusion pattern of the type
SomeModelMatches(model, type) ==
  \E i \in 1..Len(model.model) :
    /\ getBaseModelName(model.model[i]) \in CAPABILITY_PATTERNS[type]
    /\ getBaseModelName(model.model[i]) \notin CAPABILITY_EXCLUSIONS[type]

\* C39: every hasModelCapability call resolves by strict priority: the
\* user-selected value of the type if there is one; otherwise the rule of
\* the platform if it is not null; otherwise true when some model name of
\* the provider matches the pattern and no exclusion, and undefined, never
\* false, when none does.
C39_StrictPriority ==
  [][\A type \in ModelTypes :
       hasModelCapability(type) =>
         LET user == getUserSelectedCapability(provider, type)
             rule == getProviderCapabilityRule(provider.platform, type)
             returned == capResult'.result
         IN IF user # "undefined" THEN returned = user
            ELSE IF rule # "null" THEN returned = rule
            ELSE /\ SomeModelMatches(provider, type) => returned = "true"
                 /\ ~SomeModelMatches(provider, type) => returned = "undefined"
                 /\ returned # "false"]_vars
====
